---- MODULE Spec2Model ----
(***************************************************************************)
(* Appointment bot: the job scheduler of main.py (recurring pollers,      *)
(* reconciliation, pause/resume around the interactive handlers), the     *)
(* check session of reacher.py and its slot extraction.                   *)
(*                                                                         *)
(* The job queue is the library collaborator of main.py.  Its contract,   *)
(* as main.py uses it: run_repeating registers a new job under a fresh    *)
(* id (names are not unique), get_jobs_by_name(name) returns the          *)
(* registered jobs of that name, schedule_removal deregisters a job       *)
(* without stopping its running instances, and max_instances bounds the   *)
(* running instances of ONE registered job.  What get_jobs_by_name(None)  *)
(* returns is not in the repository: main.py:1106 takes it for "all       *)
(* jobs", a queue that compares names returns none; byNone is which of    *)
(* the two the build does.                                                 *)
(* Coroutines interleave only at awaits that really suspend: the          *)
(* bot_users helpers are declared async but never suspend.                *)
(***************************************************************************)
EXTENDS Integers, Sequences, FiniteSets, Bags, TLC

VARIABLES started, db, pref, buttons, cap, byNone, sess, jobs, inst, h, out, foundDone

vars == <<started, db, pref, buttons, cap, byNone, sess, jobs, inst, h, out, foundDone>>

----------------------------------------------------------------------------
(* Bounds and the small input sets.                                        *)

MaxJobs == 2                      \* per job key: job objects / data dicts alive at once

MaxInst == 3                      \* poller runs in flight at once

Ids == 1 .. MaxJobs

Owners == {1, 12}                 \* 1 is a decimal prefix of 12

JobNames == {<<"A">>, <<"B">>}

KeySeq == << <<1, <<"A">> >>, <<1, <<"B">> >>, <<12, <<"A">> >> >>

Keys == {KeySeq[x] : x \in 1 .. Len(KeySeq)}

Statuses == {"pending_form", "active"}

\* the user_jobs tables the process may find when it starts: one job
DbInits == {[k \in Keys |-> IF k = KeySeq[1] THEN s ELSE "none"] : s \in Statuses}

PrefAll(b) == [k \in Keys |-> b]

DbFaults == {"ok", "is_ready", "service_type", "preferred_date"}

----------------------------------------------------------------------------
(* Strings are sequences of characters.                                    *)

DigitChar == <<"0", "1", "2", "3", "4", "5", "6", "7", "8", "9">>

RECURSIVE Str(_)
Str(n) == IF n < 10 THEN <<DigitChar[n + 1]>>
          ELSE Str(n \div 10) \o <<DigitChar[(n % 10) + 1]>>

CheckDatesPrefix == <<"c", "h", "e", "c", "k", "_", "d", "a", "t", "e", "s", "_">>

\* f"check_dates_{user_id}_{job_name}"
job_name_to_run(user_id, job_name) ==
    CheckDatesPrefix \o Str(user_id) \o <<"_">> \o job_name

\* f"check_dates_{user_id}_"
\* a pattern that stops at the owner's id
user_job_pattern_no_separator(user_id) == CheckDatesPrefix \o Str(user_id)

user_job_pattern(user_id) == CheckDatesPrefix \o Str(user_id) \o <<"_">>

startswith(s, p) == Len(s) >= Len(p) /\ SubSeq(s, 1, Len(p)) = p

KeyName(k) == job_name_to_run(k[1], k[2])

Range(s) == {s[x] : x \in 1 .. Len(s)}

----------------------------------------------------------------------------
(* Persistence (bot_users.py).  A failed query is the dbok = FALSE case.   *)

is_job_ready_to_search(k, dbok) == dbok /\ db[k] = "active"

\* a query without "WHERE status = 'active'"
get_all_active_jobs_any(dbok) ==
    IF dbok THEN SelectSeq(KeySeq, LAMBDA k : db[k] # "none") ELSE <<>>

get_all_active_jobs(dbok) ==
    IF dbok THEN SelectSeq(KeySeq, LAMBDA k : db[k] = "active") ELSE <<>>

get_user_jobs(o, dbok) ==
    IF dbok THEN SelectSeq(KeySeq, LAMBDA k : k[1] = o /\ db[k] # "none") ELSE <<>>

\* remove_user_job for every key of ks
RECURSIVE remove_user_job(_, _)
remove_user_job(d, ks) ==
    IF ks = <<>> THEN d
    ELSE remove_user_job([d EXCEPT ![Head(ks)] = "none"], Tail(ks))

get_preferred_date(k, dbok) == dbok /\ pref[k]

----------------------------------------------------------------------------
(* The job queue.  A job object is (key, id).  did names the data dict the *)
(* job carries; a dict in which 'preferred_date_asked' is set never        *)
(* changes again, and all such dicts are named 0.                          *)

ReconcileName == <<"c", "h", "e", "c", "k", "_", "f", "o", "r", "_", "n", "e", "w", "_", "j", "o", "b", "s">>

Job(k, id, name, cb, did, mx) ==
    [key |-> k, id |-> id, name |-> name, cb |-> cb, did |-> did, max |-> mx]

\* on_startup registers the reconciliation job itself
ReconcileJob == Job(<<0, <<>> >>, 0, ReconcileName, "check_for_new_jobs", 0, 2)

get_jobs_by_name(js, name) == {j \in js : j.name = name}

\* get_jobs_by_name(None): "all jobs" to main.py:1106; to a job queue that
\* compares names, no job (every registered job has a name)
get_jobs_by_name_None(js) == IF byNone = "all" THEN js ELSE {}

schedule_removal(js, gone) == js \ gone

JobIdsUsed(k, js, is) ==
    {j.id : j \in {x \in js : x.key = k}} \cup {i.jid : i \in {x \in BagToSet(is) : x.key = k}}

DictIdsUsed(k, js, is, ps) ==
    {j.did : j \in {x \in js : x.key = k}} \cup {i.did : i \in {x \in BagToSet(is) : x.key = k}}
    \cup {p.did : p \in {x \in ps : x.key = k}}

\* ids free for a new job object that brings a new data dict
FreeIds(k, js, is, ps) == Ids \ (JobIdsUsed(k, js, is) \cup DictIdsUsed(k, js, is, ps))

NewId(free) == CHOOSE x \in free : \A y \in free : x <= y

\* job_queue.run_repeating(check_dates_continuously, data={...}, name=..., max_instances=mx)
run_repeating(js, k, mx) ==
    LET id == NewId(FreeIds(k, js, inst, h.paused))
    IN  js \cup {Job(k, id, KeyName(k), "check_dates_continuously", id, mx)}

RECURSIVE run_repeating_each(_, _, _)
run_repeating_each(js, ks, mx) ==
    IF ks = <<>> THEN js
    ELSE run_repeating_each(run_repeating(js, Head(ks), mx), Tail(ks), mx)

CanRegister(js, ks) == \A k \in Range(ks) : FreeIds(k, js, inst, h.paused) # {}

Running(j) == [i \in {x \in BagToSet(inst) : x.key = j.key /\ x.jid = j.id} |-> inst[i]]

NoMsg == {}

Msg(to, o, kind) == {[to |-> to, owner |-> o, kind |-> kind]}

\* error_logger.log_error: the report goes to the monitoring chat
log_error(o) == Msg("monitor", o, "error_report")

\* the handler record; proxy is what the browser of its interactive check
\* was launched with, detail whether the text it is about to send holds the
\* str(e) of an exception
Idle ==
    [pc |-> "idle", owner |-> 0, cb |-> <<>>, paused |-> {}, todo |-> <<>>, proxy |-> "",
     detail |-> FALSE]

AllCb == <<"a", "l", "l">>

\* the inline buttons handle_option has shown: one per job of the user, and "all"
ButtonsFor(d) ==
    {<<k[1], k[2]>> : k \in {x \in Keys : d[x] # "none"}}
    \cup {<<k[1], AllCb>> : k \in {x \in Keys : d[x] # "none"}}

----------------------------------------------------------------------------
(* reacher.py: what one site attempt sees and what it returns.  A page is  *)
(* what the selectors and the evaluated scripts yield on it; a slot label  *)
(* is the day it parses to, 0 when no date format parses it.               *)

MaxDay == 2

MaxSlots == 2

max_attempts == 5

Labels == 0 .. MaxDay

RECURSIVE SeqsUpTo(_, _)
SeqsUpTo(S, n) ==
    IF n = 0 THEN {<<>>}
    ELSE LET shorter == SeqsUpTo(S, n - 1)
         IN  shorter \cup {Append(q, x) : q \in shorter, x \in S}

LabelLists == SeqsUpTo(Labels, MaxSlots)

\* content: the no-dates phrase the page source holds, if any ("other" is
\* one that extract_dates looks for and handle_menores_service does not)
Pages ==
    {p \in [selector : BOOLEAN, content : {"none", "no_hay_horas_disponibles", "other"},
            slots : LabelLists, calendarPresent : BOOLEAN, calendarDays : LabelLists,
            text : BOOLEAN, raises : BOOLEAN] :
        /\ p.calendarDays # <<>> => p.calendarPresent /\ p.slots = <<>>
        /\ p.raises => p.slots = <<>> /\ ~p.calendarPresent}

\* the pages a poller's session is followed on: one slot element at most
ProbePages ==
    {p \in Pages : Len(p.slots) <= 1 /\ ~p.calendarPresent /\ ~p.raises}

NoPage ==
    [selector |-> FALSE, content |-> "none", slots |-> <<>>, calendarPresent |-> FALSE,
     calendarDays |-> <<>>, text |-> FALSE, raises |-> FALSE]

\* Optional[List[str]]
None == [none |-> TRUE, dates |-> <<>>]

List(ds) == [none |-> FALSE, dates |-> ds]

Plain(ds) == [x \in 1 .. Len(ds) |-> [tag |-> "", label |-> ds[x]]]

Abs(n) == IF n < 0 THEN -n ELSE n

\* a loop that takes the last of the nearest labels ("<=" for "<")
RECURSIVE Closest_last(_, _, _, _)
Closest_last(ds, pd, x, best) ==
    IF x > Len(ds) THEN best
    ELSE IF ds[x] # 0 /\ (best = 0 \/ Abs(ds[x] - pd) <= Abs(ds[best] - pd))
         THEN Closest_last(ds, pd, x + 1, x)
         ELSE Closest_last(ds, pd, x + 1, best)

\* the loop of extract_dates over dates: the first label that parses to the
\* preferred day, else the first label nearest to it (diff < min_diff)
RECURSIVE Closest(_, _, _, _)
Closest(ds, pd, x, best) ==
    IF x > Len(ds) THEN best
    ELSE IF ds[x] # 0 /\ (best = 0 \/ Abs(ds[x] - pd) < Abs(ds[best] - pd))
         THEN Closest(ds, pd, x + 1, x)
         ELSE Closest(ds, pd, x + 1, best)

\* a matcher without the early return on the exact date, and one that
\* drops the labels no format parses
MatchPreferred_nearest(ds, pd) ==
    LET best == Closest(ds, pd, 1, 0)
    IN  IF pd = 0 \/ best = 0 THEN Plain(ds)
        ELSE <<[tag |-> "CLOSEST AVAILABLE", label |-> ds[best]]>>
             \o Plain(SelectSeq(ds, LAMBDA d : d # ds[best]))

MatchPreferred_parsed(ds, pd) ==
    LET exact == {x \in 1 .. Len(ds) : ds[x] = pd}
        best  == Closest(ds, pd, 1, 0)
    IN  IF pd = 0 THEN Plain(SelectSeq(ds, LAMBDA d : d # 0))
        ELSE IF exact # {}
        THEN <<[tag |-> "SELECTED", label |-> pd]>>
        ELSE IF best # 0
        THEN <<[tag |-> "CLOSEST AVAILABLE", label |-> ds[best]]>>
             \o Plain(SelectSeq(ds, LAMBDA d : d # ds[best]))
        ELSE Plain(ds)

MatchPreferred(ds, pd) ==
    LET exact == {x \in 1 .. Len(ds) : ds[x] = pd}
        best  == Closest(ds, pd, 1, 0)
    IN  IF pd = 0 THEN Plain(ds)
        ELSE IF exact # {}
        THEN <<[tag |-> "SELECTED", label |-> pd]>>
        ELSE IF best # 0
        THEN <<[tag |-> "CLOSEST AVAILABLE", label |-> ds[best]]>>
             \o Plain(SelectSeq(ds, LAMBDA d : d # ds[best]))
        ELSE Plain(ds)

extract_dates(page, preferred_date) ==
    IF page.raises THEN List(<<>>)
    ELSE IF page.content # "none" THEN List(<<>>)
    ELSE LET dates == IF page.slots # <<>> THEN page.slots
                      ELSE IF page.calendarPresent THEN page.calendarDays
                      ELSE <<>>
         IN  IF page.slots = <<>> /\ ~page.calendarPresent /\ page.text THEN List(<<>>)
             ELSE IF dates # <<>> THEN List(MatchPreferred(dates, preferred_date))
             ELSE List(<<>>)

handle_certificate_service(page, preferred_date) ==
    IF page.selector THEN List(<<>>)
    ELSE extract_dates(page, preferred_date)

\* nav: how far the clicks got ("no_continue", "no_option", "ok")
handle_menores_service(page, preferred_date, nav) ==
    IF nav = "no_continue" THEN None
    ELSE IF page.selector \/ page.content = "no_hay_horas_disponibles" THEN List(<<>>)
    ELSE IF nav = "no_option" THEN None
    ELSE extract_dates(page, preferred_date)

Services == {"certificate", "menores"}

\* a step the flow got to and could not resolve: "#bktContinue" in both
\* flows, the service option in the menores flow when the no-hours check
\* after Continue let the flow through
StepUnresolved(service, page, nav) ==
    \/ nav = "no_continue"
    \/ /\ service = "menores"
       /\ nav = "no_option"
       /\ ~(page.selector \/ page.content = "no_hay_horas_disponibles")

Navs == {"ok", "no_continue", "no_option"}

\* The service-option step of handle_menores_service.  What one of the
\* selectors_to_try does: query_selector finds nothing ("none"), the query or
\* the click raises ("raises"), the element is clicked and the page settles
\* ("clicked"), the element is clicked and wait_for_load_state raises
\* ("clicked_raises": option_found is set, the break is not reached).
LocatorOutcomes == {"none", "raises", "clicked", "clicked_raises"}

\* the scan over ".clsBktServiceName", which no try encloses
ScanOutcomes == {"none", "raises", "clicked"}

Selectors == 3

ScanLocator == Selectors + 1

NoOption == [tried |-> <<>>, clicked |-> <<>>, found |-> FALSE, raised |-> FALSE]

\* "for selector in selectors_to_try": from selector x on
RECURSIVE try_selectors(_, _, _)
try_selectors(locs, x, o) ==
    IF x > Len(locs) THEN o
    ELSE LET t == [o EXCEPT !.tried = Append(@, x)]
             c == [t EXCEPT !.clicked = Append(@, x), !.found = TRUE]
         IN  IF locs[x] = "clicked" THEN c
             ELSE IF locs[x] = "clicked_raises" THEN try_selectors(locs, x + 1, c)
             ELSE try_selectors(locs, x + 1, t)

\* the whole step: the selectors, then "if not option_found" the scan
option_step(locs, scan) ==
    LET o == try_selectors(locs, 1, NoOption)
        t == [o EXCEPT !.tried = Append(@, ScanLocator)]
    IN  IF o.found THEN o
        ELSE IF scan = "clicked" THEN [t EXCEPT !.clicked = Append(@, ScanLocator), !.found = TRUE]
        ELSE IF scan = "raises" THEN [t EXCEPT !.raised = TRUE]
        ELSE t

\* main.py: "if available_dates and len(available_dates) > 0" / else
Outcome(result) ==
    IF result.none THEN "unknown"
    ELSE IF result.dates = <<>> THEN "empty"
    ELSE "found"

\* TorProxyManager.get_proxy: None, or {"server": "socks5://127.0.0.1:9050"}
NoProxy == ""

TorProxy == "socks5://127.0.0.1:9050"

\* How TorManager.setup ends: tor is not installed, starting it raises, the
\* readiness probe connects, or the probe gives up after its 60 tries.
TorSetups == {"not_installed", "raises", "ready", "never_ready"}

\* what setup returns: the result of _wait_for_tor_startup is not looked at
setup(tor) == tor \in {"ready", "never_ready"}

\* the setups the specifications of the poller and of the extraction follow
TorUpOrDown == {"not_installed", "ready"}

\* result is what the latest attempt gave, proxy what its browser was
\* launched with, newnym whether the NEWNYM signal was sent for it; probed is
\* whether the readiness probe of this session's Tor connected.  browser and
\* context: a browser / a browser context this session opened is open.
\* unresolved: the attempt that returned passed a step none of whose
\* locators resolved; exit is how the session ended.
NoSession ==
    [pc |-> "idle", service |-> "", preferred_date |-> 0, max_attempts |-> 0,
     current_attempt |-> 0, timeouts |-> 0, page |-> NoPage, result |-> None,
     tor_ready |-> FALSE, probed |-> FALSE, proxy |-> NoProxy, newnym |-> FALSE,
     browser |-> FALSE, context |-> FALSE, unresolved |-> FALSE, exit |-> "",
     loads |-> 0, loaded |-> FALSE, locators |-> <<>>, option |-> NoOption]

\* get_proxy: tor_ready was set by the initialize() that let the session
\* start, so the branch that initializes again and may return None is dead
get_proxy(s) == IF s.tor_ready THEN TorProxy ELSE NoProxy

----------------------------------------------------------------------------
(* Initial states: the process before on_startup.                          *)

InitWith(dbs, prefs, c) ==
    /\ cap = c
    /\ byNone \in {"all", "none"}
    /\ sess = NoSession
    /\ started = FALSE
    /\ db \in dbs
    /\ pref \in prefs
    /\ buttons = ButtonsFor(db)
    /\ jobs = {}
    /\ inst = EmptyBag
    /\ h = Idle
    /\ out = NoMsg
    /\ foundDone = {}

\* a table with a job of each of two owners
DbInitsMulti == {[k \in Keys |-> IF k = KeySeq[2] THEN "none" ELSE "active"]}

\* The process starts on a table with one job (any number of poller runs up
\* to MaxInst may then be in flight), or on a table with a job of each of
\* two owners, where the model follows the job registry only: no run starts.
Init ==
    \/ InitWith(DbInits, {PrefAll(b) : b \in BOOLEAN}, MaxInst)
    \/ InitWith(DbInitsMulti, {PrefAll(TRUE)}, 0)

----------------------------------------------------------------------------
(* Startup, reconciliation, direct scheduling, form submission.            *)

\* restart_active_jobs: a poller (max_instances 2) per active job; a failing
\* service-type query at job n + 1 aborts the loop after n registrations.
restart_active_jobs(dbok, n) ==
    run_repeating_each(jobs, SubSeq(get_all_active_jobs(dbok), 1, n), 2)

on_startup ==
    /\ ~started
    /\ \E dbok \in BOOLEAN :
         \E n \in 0 .. Len(get_all_active_jobs(dbok)) :
            jobs' = restart_active_jobs(dbok, n) \cup {ReconcileJob}
    /\ started' = TRUE
    /\ out' = NoMsg
    /\ UNCHANGED <<db, pref, buttons, cap, byNone, sess, inst, h, foundDone>>

\* a reconciliation that returns at the first job it finds registered
\* ("return" for "continue")
Reconcile_return(dbok, skipped) ==
    LET active  == get_all_active_jobs(dbok)
        seen    == {x \in 1 .. Len(active) : get_jobs_by_name(jobs, KeyName(active[x])) # {}}
        upto    == IF seen = {} THEN Len(active)
                   ELSE (CHOOSE x \in seen : \A y \in seen : x <= y) - 1
        missing == SubSeq(active, 1, upto)
        todo    == SelectSeq(missing, LAMBDA k : k \notin skipped)
    IN  /\ skipped \subseteq Range(missing)
        /\ CanRegister(jobs, todo)
        /\ jobs' = run_repeating_each(jobs, todo, 1)
        /\ out' = NoMsg
        /\ UNCHANGED <<started, db, pref, buttons, cap, byNone, sess, inst, h, foundDone>>

\* a reconciliation without the lookup by name: a poller for every active job
Reconcile_no_lookup(dbok, skipped) ==
    LET active  == get_all_active_jobs(dbok)
        todo    == SelectSeq(active, LAMBDA k : k \notin skipped)
    IN  /\ skipped \subseteq Range(active)
        /\ CanRegister(jobs, todo)
        /\ jobs' = run_repeating_each(jobs, todo, 1)
        /\ out' = NoMsg
        /\ UNCHANGED <<started, db, pref, buttons, cap, byNone, sess, inst, h, foundDone>>

\* check_for_new_jobs, one run of the reconciliation job: dbok is whether
\* get_all_active_jobs could read, skipped are the jobs whose service-type
\* query raised (continue).
Reconcile(dbok, skipped) ==
    LET active  == get_all_active_jobs(dbok)
        missing == SelectSeq(active, LAMBDA k : get_jobs_by_name(jobs, KeyName(k)) = {})
        todo    == SelectSeq(missing, LAMBDA k : k \notin skipped)
    IN  /\ skipped \subseteq Range(missing)
        /\ CanRegister(jobs, todo)
        /\ jobs' = run_repeating_each(jobs, todo, 1)
        /\ out' = NoMsg
        /\ UNCHANGED <<started, db, pref, buttons, cap, byNone, sess, inst, h, foundDone>>

check_for_new_jobs ==
    /\ ReconcileJob \in jobs
    /\ \E dbok \in BOOLEAN, skipped \in SUBSET Keys : Reconcile(dbok, skipped)

\* start_search.start_search_task: replace the pollers of that name by a new
\* one.  The confirmation is never sent: show_options(fake_update, None)
\* raises on the message without from_user, inside the inner try.
start_search_task(k) ==
    /\ started
    /\ <<k[1], k[2]>> \in buttons
    /\ \E dbok \in BOOLEAN :
         IF is_job_ready_to_search(k, dbok)
         THEN LET kept == schedule_removal(jobs, get_jobs_by_name(jobs, KeyName(k)))
              IN  /\ CanRegister(kept, <<k>>)
                  /\ jobs' = run_repeating(kept, k, 2)
                  /\ out' = NoMsg
         ELSE /\ UNCHANGED jobs
              /\ out' = NoMsg
    /\ UNCHANGED <<started, db, pref, buttons, cap, byNone, sess, inst, h, foundDone>>

\* bot_users.save_form_submission, run by the form endpoint of backend.py;
\* pref[k] is the preferred date that form carries
save_form_submission(k) ==
    /\ db[k] = "pending_form"
    /\ db' = [db EXCEPT ![k] = "active"]
    /\ out' = NoMsg
    /\ UNCHANGED <<started, pref, buttons, cap, byNone, sess, jobs, inst, h, foundDone>>

\* bot_users.add_user_job, reached from handle_job_name once the name is not
\* one of the user's jobs: a new row, status pending_form
add_user_job(k) ==
    /\ db[k] = "none"
    /\ db' = [db EXCEPT ![k] = "pending_form"]
    /\ out' = NoMsg
    /\ UNCHANGED <<started, pref, buttons, cap, byNone, sess, jobs, inst, h, foundDone>>

----------------------------------------------------------------------------
(* check_dates_continuously: one run (instance) of a registered poller,    *)
(* cut where it waits: for the prompt to be sent, for the check, for the   *)
(* found messages.                                                         *)

Instance(j, pc) ==
    [key |-> j.key, jid |-> j.id, did |-> IF pc = "asking" THEN j.did ELSE 0, pc |-> pc]

Move(i, pc) == (inst (-) SetToBag({i})) (+) SetToBag({[i EXCEPT !.pc = pc, !.did = 0]})

Leave(i) == inst (-) SetToBag({i})

\* job_data['preferred_date_asked'] = True, seen through every reference to the dict
MarkAsked(x, i) == IF x.key = i.key /\ x.did = i.did THEN [x EXCEPT !.did = 0] ELSE x

RECURSIVE MarkAskedBag(_, _, _, _)
MarkAskedBag(acc, src, todo, i) ==
    IF todo = {} THEN acc
    ELSE LET x == CHOOSE y \in todo : TRUE
         IN  MarkAskedBag(acc (+) [z \in {MarkAsked(x, i)} |-> src[x]], src, todo \ {x}, i)

\* a run that never looks at the job's status
Tick_unchecked(j, fault) ==
    /\ j \in jobs
    /\ j.cb = "check_dates_continuously"
    /\ BagCardinality(Running(j)) < j.max
    /\ BagCardinality(inst) < cap
    /\ UNCHANGED jobs
    /\ out' = NoMsg
    /\ inst' = inst (+) SetToBag({Instance(j, "checking")})
    /\ UNCHANGED <<started, db, pref, buttons, cap, byNone, sess, h, foundDone>>

\* a run that returns from a job that is not active and leaves its poller
Tick_returns(j, fault) ==
    /\ j \in jobs
    /\ j.cb = "check_dates_continuously"
    /\ BagCardinality(Running(j)) < j.max
    /\ IF ~is_job_ready_to_search(j.key, fault # "is_ready")
       THEN /\ UNCHANGED jobs
            /\ out' = log_error(j.key[1])
            /\ UNCHANGED inst
       ELSE IF fault = "service_type"
       THEN /\ out' = log_error(j.key[1])
            /\ UNCHANGED <<jobs, inst>>
       ELSE /\ BagCardinality(inst) < cap
            /\ UNCHANGED jobs
            /\ out' = NoMsg
            /\ IF ~get_preferred_date(j.key, fault # "preferred_date") /\ j.did # 0
               THEN inst' = inst (+) SetToBag({Instance(j, "asking")})
               ELSE inst' = inst (+) SetToBag({Instance(j, "checking")})
    /\ UNCHANGED <<started, db, pref, buttons, cap, byNone, sess, h, foundDone>>

\* a run whose except branch deregisters the poller
Tick_removes_on_error(j, fault) ==
    /\ j \in jobs
    /\ j.cb = "check_dates_continuously"
    /\ BagCardinality(Running(j)) < j.max
    /\ IF ~is_job_ready_to_search(j.key, fault # "is_ready") \/ fault = "service_type"
       THEN /\ jobs' = schedule_removal(jobs, {j})
            /\ out' = IF fault = "service_type" THEN log_error(j.key[1]) ELSE NoMsg
            /\ UNCHANGED inst
       ELSE /\ BagCardinality(inst) < cap
            /\ UNCHANGED jobs
            /\ out' = NoMsg
            /\ IF ~get_preferred_date(j.key, fault # "preferred_date") /\ j.did # 0
               THEN inst' = inst (+) SetToBag({Instance(j, "asking")})
               ELSE inst' = inst (+) SetToBag({Instance(j, "checking")})
    /\ UNCHANGED <<started, db, pref, buttons, cap, byNone, sess, h, foundDone>>

\* The scheduler fires poller j (the run is skipped while max_instances runs
\* of j are still going).  The run goes up to its first suspending await.
Tick(j, fault) ==
    /\ j \in jobs
    /\ j.cb = "check_dates_continuously"
    /\ BagCardinality(Running(j)) < j.max
    /\ IF ~is_job_ready_to_search(j.key, fault # "is_ready")
       THEN \* job no longer active: context.job.schedule_removal(); return
            /\ jobs' = schedule_removal(jobs, {j})
            /\ out' = NoMsg
            /\ UNCHANGED inst
       ELSE IF fault = "service_type"
       THEN \* the query raises: except branch, log_error
            /\ out' = log_error(j.key[1])
            /\ UNCHANGED <<jobs, inst>>
       ELSE /\ BagCardinality(inst) < cap
            /\ UNCHANGED jobs
            /\ out' = NoMsg
            /\ IF ~get_preferred_date(j.key, fault # "preferred_date") /\ j.did # 0
               THEN inst' = inst (+) SetToBag({Instance(j, "asking")})
               ELSE inst' = inst (+) SetToBag({Instance(j, "checking")})
    /\ UNCHANGED <<started, db, pref, buttons, cap, byNone, sess, h, foundDone>>

\* the "set preferred date" prompt was sent (or the send raised)
AskDone(i, sent) ==
    /\ BagIn(i, inst)
    /\ i.pc = "asking"
    /\ IF sent
       THEN /\ out' = Msg("user", i.key[1], "prompt")
            /\ jobs' = {MarkAsked(j, i) : j \in jobs}
            /\ h' = [h EXCEPT !.paused = {MarkAsked(p, i) : p \in h.paused}]
            /\ inst' = MarkAskedBag(SetToBag({[i EXCEPT !.pc = "checking", !.did = 0]}),
                                    Leave(i), BagToSet(Leave(i)), i)
       ELSE /\ out' = log_error(i.key[1])
            /\ inst' = Leave(i)
            /\ UNCHANGED <<jobs, h>>
    /\ UNCHANGED <<started, db, pref, buttons, cap, byNone, sess, foundDone>>

\* what asyncio.wait_for(check_appointments_async(...), timeout=60) yields
CheckOutcomes == {"found", "empty", "unknown", "timeout"}

\* a run that tells the user about every check that found nothing
CheckDone_chatty(i, outcome, s) ==
    /\ BagIn(i, inst)
    /\ i.pc = "checking"
    /\ IF outcome = "found"
       THEN inst' = Move(i, "notifying")
       ELSE inst' = Leave(i)
    /\ out' = IF outcome = "empty" THEN Msg("user", i.key[1], "no_dates") ELSE NoMsg
    /\ sess' = s
    /\ UNCHANGED <<started, db, pref, buttons, cap, byNone, jobs, h, foundDone>>

\* the time-boxed check returned: found starts the notification, a timeout
\* returns, an empty list and None both take the else branch (log only).
\* s is the check session the run leaves behind.
CheckDone(i, outcome, s) ==
    /\ BagIn(i, inst)
    /\ i.pc = "checking"
    /\ IF outcome = "found"
       THEN inst' = Move(i, "notifying")
       ELSE inst' = Leave(i)
    /\ out' = NoMsg
    /\ sess' = s
    /\ UNCHANGED <<started, db, pref, buttons, cap, byNone, jobs, h, foundDone>>

\* a found branch that cleans up before the details are out
NotifyDone_early(i, sends, dbok) ==
    /\ BagIn(i, inst)
    /\ i.pc = "notifying"
    /\ inst' = Leave(i)
    /\ foundDone' = IF sends >= 2 THEN foundDone \cup {i.key} ELSE foundDone
    /\ out' = (IF sends >= 1 THEN Msg("user", i.key[1], "found_simple") ELSE NoMsg)
              \cup (IF sends >= 2 THEN Msg("user", i.key[1], "found_detail") ELSE NoMsg)
              \cup log_error(i.key[1])
    /\ IF sends >= 1
       THEN /\ jobs' = schedule_removal(jobs, {j \in jobs : j.key = i.key /\ j.id = i.jid})
            /\ db' = IF dbok THEN remove_user_job(db, <<i.key>>) ELSE db
       ELSE UNCHANGED <<jobs, db>>
    /\ UNCHANGED <<started, pref, buttons, cap, byNone, sess, h>>

\* a found branch that cleans up in a finally, whatever was sent
NotifyDone_cleans(i, sends, dbok) ==
    /\ BagIn(i, inst)
    /\ i.pc = "notifying"
    /\ inst' = Leave(i)
    /\ foundDone' = IF sends >= 2 THEN foundDone \cup {i.key} ELSE foundDone
    /\ out' = (IF sends >= 1 THEN Msg("user", i.key[1], "found_simple") ELSE NoMsg)
              \cup (IF sends >= 2 THEN Msg("user", i.key[1], "found_detail") ELSE NoMsg)
              \cup log_error(i.key[1])
    /\ jobs' = schedule_removal(jobs, {j \in jobs : j.key = i.key /\ j.id = i.jid})
    /\ db' = IF dbok THEN remove_user_job(db, <<i.key>>) ELSE db
    /\ UNCHANGED <<started, pref, buttons, cap, byNone, sess, h>>

\* The found branch, from the first send_message on.  sends is how many of
\* the two messages (found, details) got out before one raised.  After the
\* second: context.job.schedule_removal() and remove_user_job (whose SQL
\* error is swallowed); then show_options(fake_update) raises on the
\* message without from_user.  Every way out is the except branch.
NotifyDone(i, sends, dbok) ==
    /\ BagIn(i, inst)
    /\ i.pc = "notifying"
    /\ inst' = Leave(i)
    /\ foundDone' = IF sends >= 2 THEN foundDone \cup {i.key} ELSE foundDone
    /\ out' = (IF sends >= 1 THEN Msg("user", i.key[1], "found_simple") ELSE NoMsg)
              \cup (IF sends >= 2 THEN Msg("user", i.key[1], "found_detail") ELSE NoMsg)
              \cup log_error(i.key[1])
    /\ IF sends >= 2
       THEN /\ jobs' = schedule_removal(jobs, {j \in jobs : j.key = i.key /\ j.id = i.jid})
            /\ db' = IF dbok THEN remove_user_job(db, <<i.key>>) ELSE db
       ELSE UNCHANGED <<jobs, db>>
    /\ UNCHANGED <<started, pref, buttons, cap, byNone, sess, h>>

----------------------------------------------------------------------------
(* check_appointments_async / _check_appointments_impl: the check session  *)
(* of a poller run, attempt by attempt, and the run's handling of what it  *)
(* returns.                                                                *)

Returned(result, page) == [sess EXCEPT !.pc = "returned", !.result = result, !.page = page]

\* a finally that leaves the context and the browser as they are
leave_open(s) == s

\* the finally of one turn: "if context: await context.close()", "if
\* browser: await browser.close()" (the playwright scope was left before it)
close(s) == [s EXCEPT !.browser = FALSE, !.context = FALSE]

\* the finally of one turn of the loop: close, then current_attempt += 1
Turned(s, kind, nym) ==
    [close(s) EXCEPT !.current_attempt = @ + 1,
              !.timeouts = IF kind = "timeout" THEN @ + 1 ELSE @,
              !.proxy = get_proxy(s),
              !.newnym = get_proxy(s) # NoProxy /\ nym]

\* check_appointments_async(service_option, preferred_date, max_attempts) is
\* called; when proxy_manager.initialize() fails the session ends at once
\* with None
check_appointments_async(service, preferred_date, n, tor) ==
    /\ sess.pc \in {"idle", "handled"}
    /\ LET s == [NoSession EXCEPT !.pc = "running", !.service = service,
                                  !.preferred_date = preferred_date, !.max_attempts = n]
       IN  sess' = IF setup(tor)
                   THEN [s EXCEPT !.tor_ready = TRUE, !.probed = (tor = "ready")]
                   ELSE [s EXCEPT !.pc = "returned", !.exit = "no_tor"]
    /\ out' = NoMsg
    /\ UNCHANGED <<started, db, pref, buttons, cap, byNone, jobs, inst, h, foundDone>>

\* the call of a poller run: the preferred date of the job, five attempts
SessionStart(i, service, preferred_date, tor) ==
    /\ BagIn(i, inst)
    /\ i.pc = "checking"
    /\ preferred_date # 0 => pref[i.key]
    /\ check_appointments_async(service, preferred_date, max_attempts, tor)

AttemptKinds == {"no_proxy", "timeout", "error", "page"}

\* a loop that goes on to the next attempt on an empty list as on None
\* ("if result:" for "if result is not None:")
Attempt_truthy(kind, page, nav, nym) ==
    /\ sess.pc \in {"running", "attempting"}
    /\ sess.current_attempt < sess.max_attempts
    /\ (kind = "no_proxy") = (get_proxy(sess) = NoProxy)
    /\ LET result == IF kind # "page" THEN None
                     ELSE IF sess.service = "certificate"
                     THEN handle_certificate_service(page, sess.preferred_date)
                     ELSE handle_menores_service(page, sess.preferred_date, nav)
       IN  IF ~result.none /\ result.dates # <<>>
           THEN sess' = Turned([Returned(result, page) EXCEPT
                                   !.unresolved = StepUnresolved(sess.service, page, nav),
                                   !.exit = "result"], kind, nym)
           ELSE sess' = Turned([sess EXCEPT !.pc = "running", !.result = result], kind, nym)
    /\ out' = NoMsg
    /\ UNCHANGED <<started, db, pref, buttons, cap, byNone, jobs, inst, h, foundDone>>

\* One turn of the while loop: get_proxy (new_identity sends NEWNYM or fails,
\* its result is not looked at; nym), then the attempt.  A result that is
\* not None is returned, every other ending goes on to the next attempt;
\* the finally counts the turn either way.
Attempt(kind, page, nav, nym) ==
    /\ sess.pc \in {"running", "attempting"}
    /\ sess.current_attempt < sess.max_attempts
    /\ (kind = "no_proxy") = (get_proxy(sess) = NoProxy)
    /\ LET result == IF kind # "page" THEN None
                     ELSE IF sess.service = "certificate"
                     THEN handle_certificate_service(page, sess.preferred_date)
                     ELSE handle_menores_service(page, sess.preferred_date, nav)
       IN  IF ~result.none
           THEN sess' = Turned([Returned(result, page) EXCEPT
                                   !.unresolved = StepUnresolved(sess.service, page, nav),
                                   !.exit = "result"], kind, nym)
           ELSE sess' = Turned([sess EXCEPT !.pc = "running", !.result = result], kind, nym)
    /\ out' = NoMsg
    /\ UNCHANGED <<started, db, pref, buttons, cap, byNone, jobs, inst, h, foundDone>>

\* One turn of the loop up to the page: get_proxy (NEWNYM sent or not), then
\* "browser = await p.chromium.launch(**browser_args)" and "context = await
\* browser.new_context(...)"; either may raise and leave its variable None.
Launch(b, c, nym) ==
    /\ sess.pc = "running"
    /\ sess.current_attempt < sess.max_attempts
    /\ get_proxy(sess) # NoProxy
    /\ c => b
    /\ sess' = [sess EXCEPT !.pc = "attempting", !.browser = b, !.context = c,
                            !.proxy = get_proxy(sess), !.newnym = nym,
                            !.loads = 0, !.loaded = FALSE,
                            !.locators = <<>>, !.option = NoOption]
    /\ out' = NoMsg
    /\ UNCHANGED <<started, db, pref, buttons, cap, byNone, jobs, inst, h, foundDone>>

\* the rest of the turn Launch began: without a context there is no page
AttemptEnd(kind, page, nav) ==
    /\ sess.pc = "attempting"
    /\ ~sess.context => kind # "page"
    /\ Attempt(kind, page, nav, sess.newnym)

\* "max_navigation_retries = 3"
max_navigation_retries == 3

LoadOutcomes == {"ok", "timeout", "error"}

\* a navigation that gives the turn up at the first load that fails
Goto_no_retry(load) ==
    /\ sess.pc = "attempting"
    /\ sess.context
    /\ ~sess.loaded
    /\ sess.loads < max_navigation_retries
    /\ sess' = IF load = "ok"
               THEN [sess EXCEPT !.loads = @ + 1, !.loaded = TRUE]
               ELSE Turned([sess EXCEPT !.pc = "running", !.result = None, !.loads = @ + 1],
                           load, sess.newnym)
    /\ out' = NoMsg
    /\ UNCHANGED <<started, db, pref, buttons, cap, byNone, jobs, inst, h, foundDone>>

\* "for nav_attempt in range(max_navigation_retries)": one page.goto of the
\* turn.  A load that succeeds breaks out of the loop; one that raises is
\* tried again after 2 s, the last one re-raises into the handlers of the
\* turn (log, finally, next turn).
Goto(load) ==
    /\ sess.pc = "attempting"
    /\ sess.context
    /\ ~sess.loaded
    /\ sess.loads < max_navigation_retries
    /\ sess' = IF load = "ok"
               THEN [sess EXCEPT !.loads = @ + 1, !.loaded = TRUE]
               ELSE IF sess.loads = max_navigation_retries - 1
               THEN Turned([sess EXCEPT !.pc = "running", !.result = None, !.loads = @ + 1],
                           load, sess.newnym)
               ELSE [sess EXCEPT !.loads = @ + 1]
    /\ out' = NoMsg
    /\ UNCHANGED <<started, db, pref, buttons, cap, byNone, jobs, inst, h, foundDone>>

\* the rest of a turn whose navigation is followed load by load: the service
\* flow runs on the page only once it is loaded
AttemptLoaded(kind, page, nav) ==
    /\ kind = "page" => sess.loaded
    /\ AttemptEnd(kind, page, nav)

\* the menores flow of the turn has got to its service-option step
OptionStep(locs, scan) ==
    /\ sess.pc = "attempting"
    /\ sess.context
    /\ sess.service = "menores"
    /\ sess.locators = <<>>
    /\ sess' = [sess EXCEPT !.locators = <<locs, scan>>, !.option = option_step(locs, scan)]
    /\ out' = NoMsg
    /\ UNCHANGED <<started, db, pref, buttons, cap, byNone, jobs, inst, h, foundDone>>

\* the rest of such a turn: an exception of the scan leaves the flow, an
\* option that was not found ends it ("return None", or [] on a no-hours
\* page), a found one lets it go on to the slots
AttemptOption(page) ==
    /\ sess.locators # <<>>
    /\ ~sess.option.found => ~page.selector
    /\ AttemptEnd(IF sess.option.raised THEN "error" ELSE "page", page,
                  IF sess.option.found THEN "ok" ELSE "no_option")

\* a wrapper without "except Exception": the exception reaches the caller
check_appointments_impl_raises_through ==
    /\ sess.pc \in {"running", "attempting"}
    /\ sess' = [close(sess) EXCEPT !.pc = "raised", !.exit = "error",
                 !.current_attempt = IF sess.pc = "attempting" THEN @ + 1 ELSE @]
    /\ out' = NoMsg
    /\ UNCHANGED <<started, db, pref, buttons, cap, byNone, jobs, inst, h, foundDone>>

\* _check_appointments_impl raises (get_proxy at the top of the loop and
\* proxy_manager.cleanup() in the outer finally are outside the handlers of
\* the turn): "except Exception" of check_appointments_async returns None
check_appointments_impl_raises ==
    /\ sess.pc \in {"running", "attempting"}
    /\ sess' = [close(Returned(None, NoPage)) EXCEPT !.exit = "error",
                 !.current_attempt = IF sess.pc = "attempting" THEN @ + 1 ELSE @]
    /\ out' = NoMsg
    /\ UNCHANGED <<started, db, pref, buttons, cap, byNone, jobs, inst, h, foundDone>>

\* a session that reports "no slots" when it ran out of attempts
SessionExhausted_empty ==
    /\ sess.pc = "running"
    /\ sess.current_attempt = sess.max_attempts
    /\ sess' = [Returned(List(<<>>), NoPage) EXCEPT !.exit = "exhausted"]
    /\ out' = NoMsg
    /\ UNCHANGED <<started, db, pref, buttons, cap, byNone, jobs, inst, h, foundDone>>

\* the loop ran out of attempts: "Failed to check appointments after ..."
SessionExhausted ==
    /\ sess.pc = "running"
    /\ sess.current_attempt = sess.max_attempts
    /\ sess' = [Returned(None, NoPage) EXCEPT !.exit = "exhausted"]
    /\ out' = NoMsg
    /\ UNCHANGED <<started, db, pref, buttons, cap, byNone, jobs, inst, h, foundDone>>

\* asyncio.wait_for(..., timeout=180) of check_appointments_async gives up:
\* the cancelled session leaves the playwright scope and runs its finally
\* blocks, then "except asyncio.TimeoutError: return None"
SessionTimeout ==
    /\ sess.pc \in {"running", "attempting"}
    /\ sess' = [close(Returned(None, NoPage)) EXCEPT !.exit = "timeout"]
    /\ out' = NoMsg
    /\ UNCHANGED <<started, db, pref, buttons, cap, byNone, jobs, inst, h, foundDone>>

\* the run's own time box (60 s) ends the session: except asyncio.TimeoutError
PollTimeout(i) ==
    /\ sess.pc \in {"running", "attempting"}
    /\ CheckDone(i, "timeout", NoSession)

\* the run gets the session's result and handles it
PollReturn(i) ==
    /\ sess.pc = "returned"
    /\ CheckDone(i, Outcome(sess.result), [sess EXCEPT !.pc = "handled"])

\* a caller other than a poller run takes the result
SessionClose ==
    /\ sess.pc = "returned"
    /\ sess' = NoSession
    /\ out' = NoMsg
    /\ UNCHANGED <<started, db, pref, buttons, cap, byNone, jobs, inst, h, foundDone>>

----------------------------------------------------------------------------
(* pause / resume and the two callback-query handlers.  The application    *)
(* handles one update at a time, so one handler record is enough; poller   *)
(* runs and the reconciliation job interleave with it while it waits.      *)

\* the jobs pause_user_searches removes: job.name.startswith(user_job_pattern)
pause_user_searches(js, o) ==
    {j \in get_jobs_by_name_None(js) : startswith(j.name, user_job_pattern(o))}

\* the job_data entry kept for a paused job: 'name', 'data' (the dict itself)
PausedEntry(j) == [key |-> j.key, name |-> j.name, did |-> j.did, id |-> j.id]

KeyIndex(k) == CHOOSE x \in 1 .. Len(KeySeq) : KeySeq[x] = k

Rank(p) == KeyIndex(p.key) * (MaxJobs + 1) + p.id

FirstEntry(ps) == CHOOSE p \in ps : \A q \in ps : Rank(p) <= Rank(q)

Resumed(js, p) ==
    Job(p.key, NewId(Ids \ JobIdsUsed(p.key, js, inst)), p.name,
        "check_dates_continuously", p.did, 1)

\* a resume whose return sits inside the loop: the first entry only
resume_user_searches_first(js, ps) ==
    IF ps = {} THEN js ELSE js \cup {Resumed(js, FirstEntry(ps))}

\* resume_user_searches: run_repeating(name=entry name, data=entry dict,
\* max_instances=1) for every entry, without any lookup
RECURSIVE resume_user_searches(_, _)
resume_user_searches(js, ps) ==
    IF ps = {} THEN js
    ELSE LET p == FirstEntry(ps)
         IN  resume_user_searches(js \cup {Resumed(js, p)}, ps \ {p})

RECURSIVE CanResume(_, _)
CanResume(js, ps) ==
    IF ps = {} THEN TRUE
    ELSE LET p == FirstEntry(ps)
         IN  /\ Ids \ JobIdsUsed(p.key, js, inst) # {}
             /\ CanResume(js \cup {Resumed(js, p)}, ps \ {p})

\* both handlers: query.answer(), then paused_jobs = pause_user_searches(...)
\* and the status message is being sent
HandlerBegin(pc, o, cb) ==
    /\ started
    /\ h.pc = "idle"
    /\ <<o, cb>> \in buttons
    /\ LET m == pause_user_searches(jobs, o)
       IN  /\ jobs' = schedule_removal(jobs, m)
           /\ h' = [pc |-> pc, owner |-> o, cb |-> cb,
                    paused |-> {PausedEntry(j) : j \in m}, todo |-> <<>>, proxy |-> NoProxy,
                    detail |-> FALSE]
    /\ out' = NoMsg
    /\ UNCHANGED <<started, db, pref, buttons, cap, byNone, sess, inst, foundDone>>

handle_check_appointments(o, cb) == HandlerBegin("chk_status", o, cb)

handle_cancel_job(o, cb) == HandlerBegin("can_status", o, cb)

\* a handler that returns without its resume
ResumeAndReturn_unresumed(ps, msgs) ==
    /\ UNCHANGED jobs
    /\ h' = Idle
    /\ out' = msgs

\* the handler ends with resume_user_searches(context, user_id, paused_jobs)
ResumeAndReturn(ps, msgs) ==
    /\ CanResume(jobs, ps)
    /\ jobs' = resume_user_searches(jobs, ps)
    /\ h' = Idle
    /\ out' = msgs

\* the handler is left by an exception: nothing is resumed
Abandon ==
    /\ h' = Idle
    /\ out' = NoMsg
    /\ UNCHANGED jobs

HKey(jn) == <<h.owner, jn>>

RowExists(k) == k \in Keys /\ db[k] # "none"

Ending == [h EXCEPT !.pc = "ending", !.cb = <<>>, !.todo = <<>>, !.proxy = NoProxy]

\* handle_check_appointments after "Processing check request..." (a raise of
\* that send is outside the try): up to the first interactive check, or to
\* the return when there is nothing to check.  sent = FALSE further on is a
\* raise inside the try: the except branch reports and sends the generic text.
CheckStatusDone(sent, dbok) ==
    /\ h.pc = "chk_status"
    /\ IF ~sent THEN Abandon
       ELSE LET todo == IF h.cb = AllCb THEN get_user_jobs(h.owner, dbok) ELSE <<HKey(h.cb)>>
                rows == SelectSeq(todo, LAMBDA k : dbok /\ RowExists(k))
            IN  IF h.cb = AllCb /\ todo = <<>>
                THEN \* "No active searches to check.": resume and return
                     ResumeAndReturn(h.paused, Msg("user", h.owner, "status"))
                ELSE IF h.cb # AllCb /\ dbok /\ rows = <<>>
                THEN \* "Job ... not found.": resume and return
                     ResumeAndReturn(h.paused, Msg("user", h.owner, "status"))
                ELSE /\ UNCHANGED jobs
                     /\ out' = Msg("user", h.owner, "status")
                     /\ IF rows = <<>>
                        THEN \* the service-type query raised: f"Error checking
                             \* {job_name}: {str(e)}" is what the handler shows next
                             h' = [Ending EXCEPT !.detail = ~dbok]
                        ELSE h' = [h EXCEPT !.pc = "chk_check", !.todo = rows]
    /\ UNCHANGED <<started, db, pref, buttons, cap, byNone, sess, inst, foundDone>>

\* the interactive check of Head(todo), check_appointments_async(option,
\* max_attempts=1), got as far as the browser of its one attempt: its own
\* TorProxyManager, initialize(), get_proxy()
InteractiveLaunch(tor) ==
    /\ h.pc = "chk_check"
    /\ h.proxy = NoProxy
    /\ setup(tor)
    /\ h' = [h EXCEPT !.proxy = get_proxy([NoSession EXCEPT !.tor_ready = setup(tor)])]
    /\ out' = NoMsg
    /\ UNCHANGED <<started, db, pref, buttons, cap, byNone, sess, jobs, inst, foundDone>>

\* what the handler has to show for one interactive check: the dates it
\* found, or that there are none, a timeout or an error
CheckResult(outcome) == IF outcome = "found" THEN "dates" ELSE "progress"

\* the loop of the handler with the next job whose row is found
CheckNext(dbok) ==
    LET rest == SelectSeq(Tail(h.todo), LAMBDA k : dbok /\ RowExists(k))
    IN  IF rest = <<>>
        THEN \* check_all: a query that raised left f"{job}: Error - {str(e)}"
             \* in the results the handler shows next
             h' = [Ending EXCEPT !.detail = (~dbok /\ Tail(h.todo) # <<>>)]
        ELSE h' = [h EXCEPT !.todo = rest, !.proxy = NoProxy]

\* an interactive check that resolves the job it found dates for, as the
\* background poller does
InteractiveCheckDone_resolves(outcome, dbok) ==
    /\ h.pc = "chk_check"
    /\ CheckNext(dbok)
    /\ out' = Msg("user", h.owner, CheckResult(outcome))
    /\ db' = IF outcome = "found" THEN [db EXCEPT ![Head(h.todo)] = "none"] ELSE db
    /\ UNCHANGED <<started, pref, buttons, cap, byNone, sess, jobs, inst, foundDone>>

\* the interactive check of Head(todo) (max_attempts=1, timeout=15) returned;
\* the loop of check_all goes on with the next job whose row is found
InteractiveCheckDone(outcome, dbok) ==
    /\ h.pc = "chk_check"
    /\ CheckNext(dbok)
    /\ out' = Msg("user", h.owner, CheckResult(outcome))
    /\ UNCHANGED <<started, db, pref, buttons, cap, byNone, sess, jobs, inst, foundDone>>

\* both handlers, the last sends: the result or the generic error text, the
\* menu; then resume_user_searches(paused_jobs).  A raise of the last send
\* leaves the handler without the resume.
HandlerEnd(sent, failed) ==
    /\ h.pc = "ending"
    /\ IF sent
       THEN ResumeAndReturn(h.paused,
                IF failed THEN Msg("user", h.owner, "generic_error") \cup log_error(h.owner)
                ELSE Msg("user", h.owner, IF h.detail THEN "error_detail" ELSE "result")
                     \cup Msg("user", h.owner, "menu"))
       ELSE Abandon
    /\ UNCHANGED <<started, db, pref, buttons, cap, byNone, sess, inst, foundDone>>

\* handle_cancel_job after "Processing cancellation request...":
\* remove_user_job and schedule_removal for the named job, or for every job
\* of the user; then "... has been canceled." is being sent
CancelStatusDone(sent, dbok) ==
    /\ h.pc = "can_status"
    /\ IF ~sent THEN Abandon /\ UNCHANGED db
       ELSE LET targets == IF h.cb = AllCb THEN get_user_jobs(h.owner, dbok)
                           ELSE <<HKey(h.cb)>>
                rows    == SelectSeq(targets, LAMBDA k : k \in Keys)
                names   == {KeyName(k) : k \in Range(targets)}
            IN  /\ db' = IF dbok THEN remove_user_job(db, rows) ELSE db
                /\ jobs' = schedule_removal(jobs, {j \in jobs : j.name \in names})
                /\ h' = [h EXCEPT !.pc = "can_done"]
                /\ out' = Msg("user", h.owner, "status")
    /\ UNCHANGED <<started, pref, buttons, cap, byNone, sess, inst, foundDone>>

\* "... has been canceled." was sent: the cancelled jobs leave paused_jobs;
\* if the send raised, the except branch keeps paused_jobs as it was
CancelDone(sent) ==
    /\ h.pc = "can_done"
    /\ IF sent
       THEN /\ h' = [Ending EXCEPT !.paused =
                        IF h.cb = AllCb THEN {}
                        ELSE {p \in h.paused : p.name # KeyName(HKey(h.cb))}]
            /\ out' = Msg("user", h.owner, "cancelled")
       ELSE /\ h' = Ending
            /\ out' = log_error(h.owner)
    /\ UNCHANGED <<started, db, pref, buttons, cap, byNone, sess, jobs, inst, foundDone>>

\* handle_cancel_job as one run with every send and every read succeeding,
\* up to its resume: the table after the DELETEs, the registered jobs after
\* pause and schedule_removal, and the paused entries left to resume
cancel_removed(d, js, o, cb) ==
    LET m       == pause_user_searches(js, o)
        targets == IF cb = AllCb
                   THEN SelectSeq(KeySeq, LAMBDA k : k[1] = o /\ d[k] # "none")
                   ELSE << <<o, cb>> >>
        rows    == SelectSeq(targets, LAMBDA k : k \in Keys)
        names   == {KeyName(k) : k \in Range(targets)}
        kept    == schedule_removal(js, m)
    IN  [d  |-> remove_user_job(d, rows),
         js |-> schedule_removal(kept, {j \in kept : j.name \in names}),
         ps |-> IF cb = AllCb THEN {}
                ELSE {p \in {PausedEntry(j) : j \in m} : p.name # KeyName(<<o, cb>>)}]

\* a cancellation that never resumes what it paused
cancel_job_no_resume(d, js, o, cb) ==
    [d |-> cancel_removed(d, js, o, cb).d, js |-> cancel_removed(d, js, o, cb).js]

\* the whole run: ... then resume_user_searches(context, user_id, paused_jobs)
cancel_job(d, js, o, cb) ==
    [d  |-> cancel_removed(d, js, o, cb).d,
     js |-> resume_user_searches(cancel_removed(d, js, o, cb).js, cancel_removed(d, js, o, cb).ps)]

----------------------------------------------------------------------------
Next ==
    \/ on_startup
    \/ check_for_new_jobs
    \/ \E k \in Keys : start_search_task(k)
    \/ \E k \in Keys : save_form_submission(k)
    \/ \E j \in jobs, fault \in DbFaults : Tick(j, fault)
    \/ \E i \in BagToSet(inst), sent \in BOOLEAN : AskDone(i, sent)
    \/ \E i \in BagToSet(inst), outcome \in CheckOutcomes : CheckDone(i, outcome, sess)
    \/ \E i \in BagToSet(inst), sends \in 0 .. 2, dbok \in BOOLEAN : NotifyDone(i, sends, dbok)
    \/ \E o \in Owners, cb \in JobNames \cup {AllCb} : handle_check_appointments(o, cb)
    \/ \E o \in Owners, cb \in JobNames \cup {AllCb} : handle_cancel_job(o, cb)
    \/ \E sent \in BOOLEAN, dbok \in BOOLEAN : CheckStatusDone(sent, dbok)
    \/ \E outcome \in CheckOutcomes, dbok \in BOOLEAN : InteractiveCheckDone(outcome, dbok)
    \/ \E sent \in BOOLEAN, failed \in BOOLEAN : HandlerEnd(sent, failed)
    \/ \E sent \in BOOLEAN, dbok \in BOOLEAN : CancelStatusDone(sent, dbok)
    \/ \E sent \in BOOLEAN : CancelDone(sent)

Spec == Init /\ [][Next]_vars

\* One poller with its check sessions followed attempt by attempt.
InitCheck ==
    InitWith({[k \in Keys |-> IF k = KeySeq[1] THEN "active" ELSE "none"]},
             {PrefAll(b) : b \in BOOLEAN}, 1)

NextCheck ==
    \/ on_startup
    \/ \E j \in jobs, fault \in DbFaults : Tick(j, fault)
    \/ \E i \in BagToSet(inst), sent \in BOOLEAN : AskDone(i, sent)
    \/ \E i \in BagToSet(inst), service \in Services, preferred_date \in 0 .. MaxDay,
          tor \in TorUpOrDown : SessionStart(i, service, preferred_date, tor)
    \/ \E kind \in AttemptKinds, page \in ProbePages, nav \in Navs : Attempt(kind, page, nav, TRUE)
    \/ SessionExhausted
    \/ SessionTimeout
    \/ \E i \in BagToSet(inst) : PollTimeout(i)
    \/ \E i \in BagToSet(inst) : PollReturn(i)
    \/ \E i \in BagToSet(inst), sends \in 0 .. 2, dbok \in BOOLEAN : NotifyDone(i, sends, dbok)

SpecCheck == InitCheck /\ [][NextCheck]_vars

\* The check session on its own, over every page: the poller's call (five
\* attempts) and the interactive one (max_attempts=1, no preferred date).
InitExtract ==
    InitWith({[k \in Keys |-> IF k = KeySeq[1] THEN "active" ELSE "none"]}, {PrefAll(TRUE)}, 0)

NextExtract ==
    \/ \E service \in Services, preferred_date \in 0 .. MaxDay, tor \in TorUpOrDown :
          check_appointments_async(service, preferred_date, max_attempts, tor)
    \/ \E service \in Services, tor \in TorUpOrDown :
          check_appointments_async(service, 0, 1, tor)
    \/ \E kind \in AttemptKinds, page \in Pages, nav \in Navs : Attempt(kind, page, nav, TRUE)
    \/ SessionExhausted
    \/ SessionTimeout
    \/ SessionClose

SpecExtract == InitExtract /\ [][NextExtract]_vars

\* The check session with its Tor setup and the identity of every attempt,
\* on four pages: with and without the no-dates element, with and without
\* a slot.  A running session goes on: every await of an attempt is
\* time-boxed (default timeout 60 s, wait_for 180 s).
SessionPages ==
    {p \in ProbePages : p.content = "none" /\ ~p.text /\ p.slots \in {<<>>, <<1>>}}

InitSession ==
    InitWith({[k \in Keys |-> IF k = KeySeq[1] THEN "active" ELSE "none"]}, {PrefAll(TRUE)}, 0)

SessionStep ==
    \/ \E kind \in AttemptKinds, page \in SessionPages, nav \in Navs, nym \in BOOLEAN :
          Attempt(kind, page, nav, nym)
    \/ SessionExhausted
    \/ SessionTimeout

NextSession ==
    \/ \E service \in Services, preferred_date \in 0 .. 1, tor \in TorSetups :
          check_appointments_async(service, preferred_date, max_attempts, tor)
    \/ \E service \in Services, tor \in TorSetups :
          check_appointments_async(service, 0, 1, tor)
    \/ SessionStep
    \/ SessionClose

SpecSession == InitSession /\ [][NextSession]_vars /\ WF_vars(SessionStep)

\* The check session with every turn cut at the launch of its browser and
\* at each load of the landing page: the browser and the context of a turn,
\* its navigation, the ways a turn and the session end.
NextBrowser ==
    \/ \E service \in Services, preferred_date \in 0 .. 1, tor \in TorSetups :
          check_appointments_async(service, preferred_date, max_attempts, tor)
    \/ \E service \in Services, tor \in TorSetups :
          check_appointments_async(service, 0, 1, tor)
    \/ \E b \in BOOLEAN, c \in BOOLEAN, nym \in BOOLEAN : Launch(b, c, nym)
    \/ \E load \in LoadOutcomes : Goto(load)
    \/ \E kind \in AttemptKinds, page \in SessionPages, nav \in Navs : AttemptLoaded(kind, page, nav)
    \/ SessionExhausted
    \/ SessionTimeout
    \/ check_appointments_impl_raises
    \/ SessionClose

SpecBrowser == InitSession /\ [][NextBrowser]_vars

\* One turn of the menores flow cut at its service-option step, over every
\* way the three selectors and the scan can go.
LocatorLists == [1 .. Selectors -> LocatorOutcomes]

NextOption ==
    \/ \E preferred_date \in 0 .. 1 : check_appointments_async("menores", preferred_date, 1, "ready")
    \/ \E nym \in BOOLEAN : Launch(TRUE, TRUE, nym)
    \/ \E locs \in LocatorLists, scan \in ScanOutcomes : OptionStep(locs, scan)
    \/ \E page \in SessionPages : AttemptOption(page)
    \/ SessionExhausted
    \/ SessionClose

SpecOption == InitSession /\ [][NextOption]_vars

\* A poller run with its check session beside the interactive check of
\* handle_check_appointments: two sessions at a time, on a table with an
\* active job of each of two owners.  The pages show no slot.
NoSlotPages == {p \in SessionPages : p.slots = <<>>}

InitPool == InitWith(DbInitsMulti, {PrefAll(TRUE)}, 1)

NextPool ==
    \/ on_startup
    \/ \E j \in jobs : Tick(j, "ok")
    \/ \E i \in BagToSet(inst), service \in Services : SessionStart(i, service, 0, "ready")
    \/ \E b \in BOOLEAN, nym \in BOOLEAN : Launch(b, b, nym)
    \/ \E kind \in AttemptKinds, page \in NoSlotPages : AttemptEnd(kind, page, "ok")
    \/ SessionExhausted
    \/ \E i \in BagToSet(inst) : PollTimeout(i)
    \/ \E i \in BagToSet(inst) : PollReturn(i)
    \/ \E o \in Owners, cb \in JobNames \cup {AllCb} : handle_check_appointments(o, cb)
    \/ \E sent \in BOOLEAN, dbok \in BOOLEAN : CheckStatusDone(sent, dbok)
    \/ \E tor \in TorSetups : InteractiveLaunch(tor)
    \/ \E outcome \in CheckOutcomes, dbok \in BOOLEAN : InteractiveCheckDone(outcome, dbok)
    \/ \E sent \in BOOLEAN, failed \in BOOLEAN : HandlerEnd(sent, failed)

SpecPool == InitPool /\ [][NextPool]_vars

\* The matcher of extract_dates on its own: one attempt on a page that
\* shows slot labels (or calendar days), over longer lists of more days.
MaxMatchDay == 3

MaxMatchLen == 3

MatchLists == SeqsUpTo(0 .. MaxMatchDay, MaxMatchLen)

MatchPages ==
    {[NoPage EXCEPT !.slots = ds] : ds \in MatchLists}
    \cup {[NoPage EXCEPT !.calendarPresent = TRUE, !.calendarDays = ds] : ds \in MatchLists}

NextMatch ==
    \/ \E service \in Services, preferred_date \in 0 .. MaxMatchDay :
          check_appointments_async(service, preferred_date, 1, "ready")
    \/ \E page \in MatchPages, nav \in Navs : Attempt("page", page, nav, TRUE)
    \/ SessionExhausted
    \/ SessionClose

SpecMatch == InitSession /\ [][NextMatch]_vars

\* The job registry on its own, no poller run gets as far as its site
\* check.  The tables: a job A of owner 1 and a job A of owner 12, each
\* with its form still out or active.
DbInitsRegistry ==
    {d \in [Keys -> {"none", "pending_form", "active"}] :
        /\ d[KeySeq[1]] # "none"
        /\ d[KeySeq[2]] = "none"
        /\ d[KeySeq[3]] # "none"}

InitRegistry == InitWith(DbInitsRegistry, {PrefAll(TRUE)}, 0)

NextRegistry ==
    \/ on_startup
    \/ check_for_new_jobs
    \/ \E k \in Keys : start_search_task(k)
    \/ \E k \in Keys : save_form_submission(k)
    \/ \E j \in jobs, fault \in DbFaults : Tick(j, fault)
    \/ \E o \in Owners, cb \in JobNames \cup {AllCb} : handle_check_appointments(o, cb)
    \/ \E o \in Owners, cb \in JobNames \cup {AllCb} : handle_cancel_job(o, cb)
    \/ \E sent \in BOOLEAN, dbok \in BOOLEAN : CheckStatusDone(sent, dbok)
    \/ \E outcome \in CheckOutcomes, dbok \in BOOLEAN : InteractiveCheckDone(outcome, dbok)
    \/ \E sent \in BOOLEAN, failed \in BOOLEAN : HandlerEnd(sent, failed)
    \/ \E sent \in BOOLEAN, dbok \in BOOLEAN : CancelStatusDone(sent, dbok)
    \/ \E sent \in BOOLEAN : CancelDone(sent)

SpecRegistry == InitRegistry /\ [][NextRegistry]_vars

\* a run of the reconciliation job in which the reads for job k succeed
ReconcileTick(k) ==
    /\ ReconcileJob \in jobs
    /\ \E skipped \in SUBSET (Keys \ {k}) : Reconcile(TRUE, skipped)

\* a handler that waits for a send goes on when the send returns or raises
HandlerStep ==
    \/ \E sent \in BOOLEAN, dbok \in BOOLEAN : CheckStatusDone(sent, dbok)
    \/ \E outcome \in CheckOutcomes, dbok \in BOOLEAN : InteractiveCheckDone(outcome, dbok)
    \/ \E sent \in BOOLEAN, failed \in BOOLEAN : HandlerEnd(sent, failed)
    \/ \E sent \in BOOLEAN, dbok \in BOOLEAN : CancelStatusDone(sent, dbok)
    \/ \E sent \in BOOLEAN : CancelDone(sent)

(* One job through its whole life: named (pending_form), submitted         *)
(* (active), resolved or cancelled (no row), named again; one poller run   *)
(* at a time.                                                              *)

InitTick == InitWith(DbInits, {PrefAll(TRUE)}, 1)

\* the job an owner names again after it was resolved or cancelled
TickKeys == {KeySeq[1]}

NextTick ==
    \/ on_startup
    \/ check_for_new_jobs
    \/ \E k \in TickKeys : add_user_job(k)
    \/ \E k \in Keys : save_form_submission(k)
    \/ \E j \in jobs, fault \in DbFaults : Tick(j, fault)
    \/ \E i \in BagToSet(inst), sent \in BOOLEAN : AskDone(i, sent)
    \/ \E i \in BagToSet(inst), outcome \in CheckOutcomes : CheckDone(i, outcome, sess)
    \/ \E i \in BagToSet(inst), sends \in 0 .. 2, dbok \in BOOLEAN : NotifyDone(i, sends, dbok)
    \/ \E o \in Owners, cb \in JobNames \cup {AllCb} : handle_cancel_job(o, cb)
    \/ \E sent \in BOOLEAN, failed \in BOOLEAN : HandlerEnd(sent, failed)
    \/ \E sent \in BOOLEAN, dbok \in BOOLEAN : CancelStatusDone(sent, dbok)
    \/ \E sent \in BOOLEAN : CancelDone(sent)

\* a run of a poller goes on: its sends return or raise, its check is cut
\* off after 60 s
PollerStep ==
    \/ \E i \in BagToSet(inst), sent \in BOOLEAN : AskDone(i, sent)
    \/ \E i \in BagToSet(inst), outcome \in CheckOutcomes : CheckDone(i, outcome, sess)
    \/ \E i \in BagToSet(inst), sends \in 0 .. 2, dbok \in BOOLEAN : NotifyDone(i, sends, dbok)

\* the scheduler fires a poller of job k
TickOf(k) == \E j \in jobs, fault \in DbFaults : j.key = k /\ Tick(j, fault)

\* scheduled as the registry is: the reconciliation job fires every 60 s, no
\* handler waits for ever, and no run of a poller does.  A registered poller
\* is fired at its interval (5 s after a resume): a job that has a poller
\* again and again gets a run of one.
SpecTick ==
    /\ InitTick /\ [][NextTick]_vars
    /\ \A k \in Keys : WF_vars(ReconcileTick(k))
    /\ WF_vars(HandlerStep)
    /\ WF_vars(PollerStep)
    /\ \A k \in Keys : SF_vars(TickOf(k))

\* The registry with the scheduling the job queue and the event loop give:
\* the reconciliation job is fired every 60 s, so runs of it that can read a
\* job's row keep coming, and no handler waits for ever.
SpecReconcile ==
    /\ SpecRegistry
    /\ \A k \in Keys : WF_vars(ReconcileTick(k))
    /\ WF_vars(HandlerStep)

TypeOK ==
    /\ started \in BOOLEAN
    /\ db \in [Keys -> {"none", "pending_form", "active"}]
    /\ pref \in [Keys -> BOOLEAN]
    /\ \A j \in jobs : j.id \in Ids \cup {0} /\ j.max \in {1, 2}
    /\ IsABag(inst)
    /\ \A i \in BagToSet(inst) : i.jid \in Ids /\ i.key \in Keys
    /\ foundDone \subseteq Keys

----------------------------------------------------------------------------
(* The claims.                                                             *)

PollersOf(k) == {j \in jobs : j.key = k}

InstancesOf(k) == {i \in BagToSet(inst) : i.key = k}

RunsOf(k) == BagCardinality([i \in InstancesOf(k) |-> inst[i]])

\* C1: in every reachable state the scheduler holds at most one registered
\* poller per (owner, job_name) key.
C1_OnePollerPerKey == \A k \in Keys : Cardinality(PollersOf(k)) <= 1

\* C2: while handle_check_appointments is between pause_user_searches and
\* resume_user_searches for owner O, no poller run of a key of O is in its
\* site check.
C2_NoPollInInteractiveWindow ==
    h.pc \in {"chk_status", "chk_check"} =>
        \A i \in BagToSet(inst) : ~(i.key[1] = h.owner /\ i.pc = "checking")

\* C3: at most 2 runs of the background check are in flight for one key.
C3_AtMostTwoRunsPerKey == \A k \in Keys : RunsOf(k) <= 2

NoAvailabilitySignal(page) == page.selector \/ page.content # "none" \/ page.text

\* C4: a site attempt returns the empty list only for a page that shows a
\* no-availability signal (text node or empty-slot marker, phrase in the
\* content, page-text heuristic).
C4_EmptyOnlyOnSignal ==
    (sess.pc = "returned" /\ Outcome(sess.result) = "empty") => NoAvailabilitySignal(sess.page)

\* C5: when every attempt of a poller's check session ended in a timeout the
\* session returns None (unknown), and the run that gets it changes neither
\* the job's row nor the registered jobs.
C5_AllTimeoutsUnknown ==
    [][(sess.pc = "returned" /\ sess.timeouts = max_attempts /\ sess'.pc = "handled") =>
          /\ sess.result = None
          /\ Outcome(sess.result) = "unknown"
          /\ jobs' = jobs
          /\ db' = db]_vars

C5_Witness ==
    /\ sess.pc = "handled"
    /\ sess.timeouts = max_attempts
    /\ sess.result = None
    /\ db[KeySeq[1]] = "active"
    /\ PollersOf(KeySeq[1]) # {}

C7_FoundHandledOnce ==
    [][\A i \in BagToSet(inst) :
          (/\ i.pc = "notifying"
           /\ CopiesIn(i, inst') < CopiesIn(i, inst)
           /\ Msg("user", i.key[1], "found_detail") \subseteq out') => i.key \notin foundDone]_vars

\* C8: a poller run whose session returned the empty list ends without
\* touching the job's row or the registered jobs and without any message.
C8_EmptyChangesNothing ==
    [][(sess.pc = "returned" /\ Outcome(sess.result) = "empty" /\ sess'.pc = "handled") =>
          /\ jobs' = jobs
          /\ db' = db
          /\ out' = NoMsg
          /\ BagCardinality(inst') < BagCardinality(inst)]_vars

C8_Witness ==
    /\ sess.pc = "handled"
    /\ Outcome(sess.result) = "empty"
    /\ db[KeySeq[1]] = "active"
    /\ PollersOf(KeySeq[1]) # {}
    /\ inst = EmptyBag
    /\ out = NoMsg

\* C9: a poller run whose session returned None (unknown) leaves the job
\* active and scheduled, reports to the monitoring channel and sends
\* nothing to the user.
C9_UnknownIsReported ==
    [][(sess.pc = "returned" /\ Outcome(sess.result) = "unknown" /\ sess'.pc = "handled") =>
          /\ jobs' = jobs
          /\ db' = db
          /\ \E i \in BagToSet(inst) : i.pc = "checking" /\ out' = log_error(i.key[1])]_vars

\* C10: pause_user_searches(owner) deregisters every registered poller of
\* that owner and returns one entry for each of them, and no other.
C10_PauseTakesOwnersPollers ==
    [][(h.pc = "idle" /\ h'.pc # "idle") =>
          LET mine == {j \in jobs : j.cb = "check_dates_continuously" /\ j.key[1] = h'.owner}
          IN  /\ jobs' = jobs \ mine
              /\ h'.paused = {PausedEntry(j) : j \in mine}]_vars

Pollers(js) == {j \in js : j.cb = "check_dates_continuously"}

\* the registry as the claims see it: per key, the data dicts of its pollers
\* and how many pollers there are
PollerData(js) == {<<j.key, j.did>> : j \in Pollers(js)}

PollerCount(js, k) == Cardinality({j \in Pollers(js) : j.key = k})

\* resume_user_searches(owner, pause_user_searches(owner)) with nothing in between
PauseThenResume(js, o) ==
    LET m == pause_user_searches(js, o)
    IN  resume_user_searches(schedule_removal(js, m), {PausedEntry(j) : j \in m})

\* C11: in every scheduler state, pause_user_searches(owner) followed at
\* once by resume_user_searches(owner, result) leaves the registered pollers
\* what they were: the same keys, as many pollers per key, the same job data.
C11_PauseResumeRestores ==
    \A o \in Owners :
        LET m == pause_user_searches(jobs, o)
        IN  CanResume(schedule_removal(jobs, m), {PausedEntry(j) : j \in m}) =>
                /\ PollerData(PauseThenResume(jobs, o)) = PollerData(jobs)
                /\ \A k \in Keys : PollerCount(PauseThenResume(jobs, o), k) = PollerCount(jobs, k)
                /\ PauseThenResume(jobs, o) \ Pollers(PauseThenResume(jobs, o)) = jobs \ Pollers(jobs)

C11_Witness ==
    /\ byNone = "all"
    /\ h.pc = "idle"
    /\ Cardinality(pause_user_searches(jobs, 1)) = 2
    /\ pause_user_searches(jobs, 12) # {}
    /\ ReconcileJob \in jobs

\* C12: the resume_user_searches that ends a cancel or check handler
\* registers pollers only for jobs whose row is still there with status
\* active.
C12_ResumeOnlyActive ==
    [][(h.pc # "idle" /\ h'.pc = "idle") =>
          \A j \in jobs' \ jobs : db'[j.key] = "active"]_vars

\* C13: the startup recovery, run on the empty scheduler, registers no
\* poller for a job that is not active and at most one for an active one;
\* when it completes (every read succeeded) each active job has exactly one
\* registered poller.
C13_RecoveryRegistersActive ==
    [][(~started /\ started') =>
          /\ jobs = {}
          /\ \A k \in Keys : PollerCount(jobs', k) <= (IF db[k] = "active" THEN 1 ELSE 0)
          /\ (jobs' = restart_active_jobs(TRUE, Len(get_all_active_jobs(TRUE))) \cup {ReconcileJob}) =>
                 \A k \in Keys : PollerCount(jobs', k) = (IF db[k] = "active" THEN 1 ELSE 0)]_vars

C13_Witness ==
    /\ started
    /\ db[KeySeq[1]] = "active"
    /\ db[KeySeq[3]] = "pending_form"
    /\ Pollers(jobs) = {Job(KeySeq[1], 1, KeyName(KeySeq[1]), "check_dates_continuously", 1, 2)}
    /\ ReconcileJob \in jobs

\* C14: a job of the running process whose row is active has a registered
\* poller sooner or later, or stops being active, by the runs of
\* check_for_new_jobs alone.
C14_ReconcileRegistersActive ==
    \A k \in Keys :
        (started /\ db[k] = "active") ~> (PollersOf(k) # {} \/ db[k] # "active")

C14_Witness ==
    /\ started
    /\ byNone = "none"
    /\ db[KeySeq[3]] = "active"
    /\ db[KeySeq[1]] = "pending_form"
    /\ Pollers(jobs) = {Job(KeySeq[3], 1, KeyName(KeySeq[3]), "check_dates_continuously", 1, 1)}

\* the labels the matcher of extract_dates is given on a page
MatcherInput(page) ==
    IF page.slots # <<>> THEN page.slots
    ELSE IF page.calendarPresent THEN page.calendarDays
    ELSE <<>>

\* the session returned what the matcher made of a non-empty list of labels
MatcherReached ==
    /\ sess.pc = "returned"
    /\ ~sess.result.none
    /\ ~sess.page.selector /\ sess.page.content = "none" /\ ~sess.page.raises
    /\ MatcherInput(sess.page) # <<>>

Tagged(r, tag) == {x \in 1 .. Len(r) : r[x].tag = tag}

\* C15: for a preferred date P and a list with a label dated P, at whatever
\* position, the matcher returns exactly one element tagged SELECTED, dated
\* P, and none tagged CLOSEST AVAILABLE.
C15_ExactMatchSelected ==
    (/\ MatcherReached
     /\ sess.preferred_date # 0
     /\ sess.preferred_date \in Range(MatcherInput(sess.page))) =>
        /\ Cardinality(Tagged(sess.result.dates, "SELECTED")) = 1
        /\ Tagged(sess.result.dates, "CLOSEST AVAILABLE") = {}
        /\ \A x \in Tagged(sess.result.dates, "SELECTED") :
               sess.result.dates[x].label = sess.preferred_date

C15_Witness ==
    /\ MatcherReached
    /\ sess.preferred_date = 2
    /\ sess.page.slots = <<3, 0, 2>>
    /\ sess.result.dates = <<[tag |-> "SELECTED", label |-> 2]>>

\* exactly one element of r is tagged CLOSEST AVAILABLE; its label is one
\* of the parsed labels of ds nearest to pd, and of those the first in ds
ClosestTagged(ds, pd, r) ==
    LET parsed == {x \in 1 .. Len(ds) : ds[x] # 0}
    IN  /\ Cardinality(Tagged(r, "CLOSEST AVAILABLE")) = 1
        /\ \A t \in Tagged(r, "CLOSEST AVAILABLE") :
               \E x \in parsed :
                  /\ r[t].label = ds[x]
                  /\ \A y \in parsed : Abs(ds[x] - pd) <= Abs(ds[y] - pd)
                  /\ \A y \in parsed : Abs(ds[y] - pd) = Abs(ds[x] - pd) => x <= y

NoExactMatch ==
    /\ MatcherReached
    /\ sess.preferred_date # 0
    /\ sess.preferred_date \notin Range(MatcherInput(sess.page))

\* C16 as stated: for a preferred date P and every non-empty list with no
\* label dated P the matcher returns exactly one element tagged CLOSEST
\* AVAILABLE, a label of least day-distance to P, the first of those.
C16_ClosestTaggedAlways ==
    NoExactMatch => ClosestTagged(MatcherInput(sess.page), sess.preferred_date, sess.result.dates)

\* C16: for a preferred date P and a non-empty list with no label dated P,
\* the matcher tags exactly one element CLOSEST AVAILABLE, a label of least
\* day-distance to P and the first of those, when at least one label
\* parses as a date; when none does, the labels come back untagged.
C16_ClosestTaggedWhenParsed ==
    NoExactMatch =>
        LET ds == MatcherInput(sess.page)
        IN  IF \E x \in 1 .. Len(ds) : ds[x] # 0
            THEN ClosestTagged(ds, sess.preferred_date, sess.result.dates)
            ELSE /\ Len(sess.result.dates) = Len(ds)
                 /\ \A x \in 1 .. Len(ds) : sess.result.dates[x] = [tag |-> "", label |-> ds[x]]

C16_Witness ==
    /\ MatcherReached
    /\ sess.preferred_date = 2
    /\ sess.page.slots = <<0, 1, 3>>
    /\ sess.result.dates[1] = [tag |-> "CLOSEST AVAILABLE", label |-> 1]
    /\ Len(sess.result.dates) = 3

\* C17: without a preferred date the matcher returns the labels as they
\* are, in their order and untagged, and the non-empty result is the outcome
\* found.
C17_NoPreferenceUnchanged ==
    (MatcherReached /\ sess.preferred_date = 0) =>
        LET ds == MatcherInput(sess.page)
        IN  /\ Len(sess.result.dates) = Len(ds)
            /\ \A x \in 1 .. Len(ds) : sess.result.dates[x] = [tag |-> "", label |-> ds[x]]
            /\ Outcome(sess.result) = "found"

C17_Witness ==
    /\ MatcherReached
    /\ sess.preferred_date = 0
    /\ sess.page.calendarDays = <<2, 0, 2>>
    /\ Outcome(sess.result) = "found"
    /\ Len(sess.result.dates) = 3

\* a turn of the session's loop was made in this step
AttemptMade == sess.pc = "running" /\ sess'.current_attempt = sess.current_attempt + 1

\* C18: the first attempt of a check session is made without proxy, and
\* every later attempt with the identity the provider gave.
C18_FirstAttemptDirect ==
    [][AttemptMade => ((sess.current_attempt = 0) <=> (sess'.proxy = NoProxy))]_vars

\* C19: a check session makes at most max_attempts attempts and then
\* returns: every turn of the loop adds one to the counter, a turn goes on
\* to the next only when its attempt gave None, the first attempt that
\* gives a list (found or empty) returns it at once, and a session that
\* returned makes no further attempt.
C19_SessionBounded ==
    /\ [][/\ sess'.current_attempt <= sess'.max_attempts
          /\ (sess.pc = "running" /\ sess'.pc = "running") =>
                 (sess'.current_attempt = sess.current_attempt + 1 /\ sess'.result.none)
          /\ (sess.pc = "running" /\ sess'.pc = "returned" /\ ~sess'.result.none) =>
                 sess'.current_attempt = sess.current_attempt + 1
          /\ (sess.pc = "returned") =>
                 (sess'.pc # "running" /\ sess'.current_attempt \in {0, sess.current_attempt})]_vars
    /\ ((sess.pc = "running") ~> (sess.pc = "returned"))

C19_Witness ==
    /\ sess.pc = "returned"
    /\ sess.max_attempts = max_attempts
    /\ sess.current_attempt = 3
    /\ sess.timeouts = 1
    /\ Outcome(sess.result) = "found"

\* C20: an attempt that uses the Tor circuit was preceded by a NEWNYM
\* signal sent for it, and the circuit is used only after its readiness
\* probe connected.
C20_IdentityAfterProbe ==
    [][(AttemptMade /\ sess'.proxy = TorProxy) => (sess'.newnym /\ sess.probed)]_vars

\* C21: two check sessions that run at the same time never hold the same
\* identity when each drew it first from its provider (no pool was
\* exhausted and reset): identities are drawn without replacement.
C21_DistinctIdentities ==
    ~(/\ sess.pc = "attempting"
      /\ sess.current_attempt = 0
      /\ h.pc = "chk_check"
      /\ h.proxy # NoProxy
      /\ sess.proxy = h.proxy)

\* C22: an identity whose attempts ended in a timeout three times is not
\* handed to a later attempt of the session (there is no reset in between).
C22_FailedIdentityExcluded ==
    [][(AttemptMade /\ sess.timeouts >= 3 /\ sess.proxy = TorProxy) => sess'.proxy # TorProxy]_vars

\* C23: a browser and a context are open only inside the attempt that
\* opened them: none is open when the next attempt starts, none after the
\* session returned, however the attempt ended (result, error, timeout,
\* cancellation by the wall-clock timeout, exception).
C23_BrowserReleased ==
    /\ sess.context => sess.browser
    /\ sess.pc # "attempting" => (~sess.browser /\ ~sess.context)

C23_Witness ==
    /\ sess.pc = "attempting"
    /\ sess.browser /\ sess.context
    /\ sess.current_attempt = 2
    /\ sess.timeouts = 1

\* C24: an attempt that passed a wizard step none of whose locators
\* resolved gives neither a slot list nor the empty list: the session does
\* not return from it.
C24_UnresolvedStepFails ==
    (sess.pc = "returned" /\ sess.exit = "result") => ~sess.unresolved

\* C25: check_appointments_async ends by returning a value, None or a list,
\* whatever its attempts, the Tor setup and its timeout did, and however
\* _check_appointments_impl ended: no exception reaches its caller, and what
\* it returns after an exception, a timeout or a failed setup is None.
C25_AlwaysReturnsValue ==
    /\ sess.pc \in {"idle", "running", "attempting", "returned"}
    /\ sess.pc = "returned" =>
          /\ sess.exit \in {"result", "exhausted", "timeout", "error", "no_tor"}
          /\ (sess.exit # "result") => sess.result = None
          /\ (sess.exit = "result") => ~sess.result.none

C25_Witness ==
    /\ sess.pc = "returned"
    /\ sess.exit = "error"
    /\ sess.current_attempt = 3
    /\ sess.timeouts = 1
    /\ sess.result = None

\* C26: no message to a user holds the text of an exception; error detail
\* goes to the monitoring chat only.
C26_NoDetailToUser ==
    \A m \in out : m.kind = "error_detail" => m.to = "monitor"

\* two registries with the same pollers: the same keys, as many pollers per
\* key, the same job data, and the same other jobs
SamePollers(js1, js2) ==
    /\ PollerData(js1) = PollerData(js2)
    /\ \A k \in Keys : PollerCount(js1, k) = PollerCount(js2, k)
    /\ js1 \ Pollers(js1) = js2 \ Pollers(js2)

\* C27: in every scheduler state, cancelling a job (or all jobs) of an owner
\* a second time leaves the job table and the registered pollers what the
\* first cancellation made them, and cancelling a job that has no row and no
\* poller leaves both what they were.
C27_CancelIdempotent ==
    \A o \in Owners, cb \in JobNames \cup {AllCb} :
        LET c1 == cancel_removed(db, jobs, o, cb)
            r1 == cancel_job(db, jobs, o, cb)
            c2 == cancel_removed(r1.d, r1.js, o, cb)
            r2 == cancel_job(r1.d, r1.js, o, cb)
        IN  ((cb = AllCb \/ <<o, cb>> \in Keys) /\ CanResume(c1.js, c1.ps)) =>
               /\ CanResume(c2.js, c2.ps)
               /\ r2.d = r1.d
               /\ SamePollers(r2.js, r1.js)
               /\ (cb # AllCb => r1.d[<<o, cb>>] = "none" /\ PollerCount(r1.js, <<o, cb>>) = 0)
               /\ (cb # AllCb /\ db[<<o, cb>>] = "none" /\ PollerCount(jobs, <<o, cb>>) = 0) =>
                      (r1.d = db /\ SamePollers(r1.js, jobs))

C27_Witness ==
    /\ byNone = "all"
    /\ h.pc = "idle"
    /\ db[KeySeq[1]] = "active"
    /\ PollerCount(jobs, KeySeq[1]) = 2
    /\ PollerCount(jobs, KeySeq[3]) = 1
    /\ cancel_job(db, jobs, 1, <<"A">>).d # db
    /\ PollerCount(cancel_job(db, jobs, 1, <<"A">>).js, KeySeq[1]) = 0
    /\ PollerCount(cancel_job(db, jobs, 1, <<"B">>).js, KeySeq[1]) = 2

\* the poller runs a step starts: the instances the step adds
Started ==
    IF BagCardinality(inst') > BagCardinality(inst)
    THEN {i \in BagToSet(inst') : CopiesIn(i, inst') > CopiesIn(i, inst)}
    ELSE {}

\* C28: a run of a poller starts a check (or the prompt before it) only for
\* a job whose row is active when the run starts; the run of a poller whose
\* job is pending_form or has no row starts nothing, sends nothing and
\* removes its own poller from the registry.
C28_TickOnlyIfActive ==
    [][/\ \A i \in Started : i.pc \in {"asking", "checking"} => db[i.key] = "active"
       /\ \A j \in jobs, fault \in DbFaults :
             (Tick(j, fault) /\ db[j.key] # "active") =>
                (j \notin jobs' /\ jobs' \subseteq jobs /\ inst' = inst /\ out' = NoMsg)]_vars

\* a registered poller of a job that is pending_form, the scheduler free to fire it
C28_Witness ==
    \E j \in Pollers(jobs) :
        /\ db[j.key] = "pending_form"
        /\ BagCardinality(Running(j)) < j.max
        /\ BagCardinality(inst) < cap

\* C29: a run of a poller of an active job in which a read fails (the status,
\* the service type or the preferred date) leaves the table as it is and the
\* reconciliation job and every other job registered; only the failed status
\* read removes the run's own poller, and an active job without a poller
\* gets one again from the reconciliation job, or stops being active.
C29_TickSurvivesDbFailure ==
    /\ [][\A j \in jobs, fault \in DbFaults \ {"ok"} :
             (Tick(j, fault) /\ db[j.key] = "active") =>
                /\ db' = db
                /\ jobs \ {j} \subseteq jobs'
                /\ (ReconcileJob \in jobs => ReconcileJob \in jobs')
                /\ (fault # "is_ready" => j \in jobs')
                /\ (fault = "preferred_date" => \E i \in Started : i.key = j.key)]_vars
    /\ \A k \in Keys :
          (started /\ db[k] = "active" /\ PollerCount(jobs, k) = 0)
             ~> (PollerCount(jobs, k) > 0 \/ db[k] # "active")

\* a run goes on to the prompt though the job has a preferred date: its
\* read has failed; the job is active, its poller and the reconciliation job
\* are registered
C29_Witness ==
    \E i \in BagToSet(inst) :
        /\ i.pc = "asking"
        /\ pref[i.key]
        /\ db[i.key] = "active"
        /\ PollerCount(jobs, i.key) = 1
        /\ ReconcileJob \in jobs
        /\ h.pc = "idle"

\* what a run of check_for_new_jobs whose reads succeed leaves registered
AfterReconcile ==
    LET active  == get_all_active_jobs(TRUE)
        missing == SelectSeq(active, LAMBDA k : get_jobs_by_name(jobs, KeyName(k)) = {})
    IN  IF CanRegister(jobs, missing) THEN run_repeating_each(jobs, missing, 1) ELSE jobs

\* C30: a run of check_for_new_jobs leaves every registered job registered
\* and registers pollers only for active jobs that had none under their
\* name; after a run whose reads all succeeded, a second run on the same
\* table registers nothing.
C30_ReconcileIdempotent ==
    [][\A dbok \in BOOLEAN, skipped \in SUBSET Keys :
          (ReconcileJob \in jobs /\ Reconcile(dbok, skipped)) =>
             /\ jobs \subseteq jobs'
             /\ \A j \in jobs' \ jobs :
                   /\ j.cb = "check_dates_continuously"
                   /\ db[j.key] = "active"
                   /\ get_jobs_by_name(jobs, j.name) = {}
                   /\ PollerCount(jobs', j.key) = 1
             /\ (dbok /\ skipped = {}) => AfterReconcile' = jobs']_vars

\* the reconciliation job has registered the pollers of both active jobs
C30_Witness ==
    /\ started
    /\ byNone = "none"
    /\ h.pc = "idle"
    /\ db[KeySeq[1]] = "active"
    /\ db[KeySeq[3]] = "active"
    /\ PollerCount(jobs, KeySeq[1]) = 1
    /\ PollerCount(jobs, KeySeq[3]) = 1
    /\ \A j \in Pollers(jobs) : j.max = 1
    /\ AfterReconcile = jobs

\* C31: a turn loads the landing page at most max_navigation_retries times;
\* a load that succeeds lets the turn go on, a load that fails before the
\* last one is tried again, and the failure of the last one ends the turn
\* only: the browser is closed, the session goes on to its next turn, and
\* the job table and the registry are as they were.
C31_NavigationRetries ==
    /\ [](sess.loads <= max_navigation_retries)
    /\ [][(sess.pc = "attempting" /\ sess'.loads = sess.loads + 1) =>
             /\ sess.loads < max_navigation_retries
             /\ ~sess.loaded
             /\ db' = db /\ jobs' = jobs
             /\ IF sess'.loaded \/ sess'.loads < max_navigation_retries
                THEN /\ sess'.pc = "attempting"
                     /\ sess'.current_attempt = sess.current_attempt
                     /\ sess'.context
                ELSE /\ sess'.pc = "running"
                     /\ sess'.current_attempt = sess.current_attempt + 1
                     /\ ~sess'.browser /\ ~sess'.context
                     /\ sess'.result = None]_vars

\* the third load of the first turn has failed: the turn is over, its browser
\* closed, and the session is about to begin its second turn
C31_Witness ==
    /\ sess.pc = "running"
    /\ sess.current_attempt = 1
    /\ sess.max_attempts = max_attempts
    /\ sess.loads = max_navigation_retries
    /\ ~sess.loaded
    /\ ~sess.browser

\* C33: for a preferred date P and a list with no label dated P in which a
\* label parses, the matcher returns as many elements as it was given: the
\* closest label first, tagged, then every other element of the list,
\* untagged and in the order of the list, further copies of the closest
\* label among them.
C33_AllLabelsReturned ==
    (NoExactMatch /\ \E x \in 1 .. Len(MatcherInput(sess.page)) : MatcherInput(sess.page)[x] # 0) =>
        LET ds   == MatcherInput(sess.page)
            best == Closest(ds, sess.preferred_date, 1, 0)
            rest == SubSeq(ds, 1, best - 1) \o SubSeq(ds, best + 1, Len(ds))
        IN  /\ Len(sess.result.dates) = Len(ds)
            /\ sess.result.dates =
                  <<[tag |-> "CLOSEST AVAILABLE", label |-> ds[best]]>> \o Plain(rest)

\* the locators in the order of the code: the selectors, then the scan
LocatorOrder == [x \in 1 .. ScanLocator |-> x]

\* C32: at the service-option step the locators are tried in their order;
\* the first that resolves is clicked and none is tried after it, one that
\* raises is passed over, and the step ends without an option only after
\* every locator was tried.
C32_FirstLocatorWins ==
    sess.locators # <<>> =>
        LET o == sess.option
        IN  /\ o.tried = SubSeq(LocatorOrder, 1, Len(o.tried))
            /\ Len(o.clicked) <= 1
            /\ o.found = (o.clicked # <<>>)
            /\ o.found => o.clicked[1] = o.tried[Len(o.tried)]
            /\ ~o.raised
            /\ ~o.found => o.tried = LocatorOrder

\* C34: when one of the two found messages of a run cannot be sent, the run
\* ends with the registry and the job table as they were (the job keeps its
\* row, its status and its poller), the failure goes to the monitoring chat,
\* and the owner gets nothing but the found message that did go out.
C34_FailedNotificationKeepsJob ==
    [][\A i \in BagToSet(inst) :
          (/\ i.pc = "notifying"
           /\ CopiesIn(i, inst') < CopiesIn(i, inst)
           /\ Msg("user", i.key[1], "found_detail") \cap out' = {}) =>
              /\ jobs' = jobs
              /\ db' = db
              /\ foundDone' = foundDone
              /\ log_error(i.key[1]) \subseteq out'
              /\ out' \subseteq log_error(i.key[1]) \cup Msg("user", i.key[1], "found_simple")]_vars

\* the second found message of a run could not be sent: the first is out,
\* the report is out, and the job is active with its poller registered
C34_Witness ==
    /\ out = log_error(1) \cup Msg("user", 1, "found_simple")
    /\ db[KeySeq[1]] = "active"
    /\ PollerCount(jobs, KeySeq[1]) = 1
    /\ foundDone = {}
    /\ inst = EmptyBag

\* the entries the handler still holds are registered again, each with its
\* job data
Resumed_all == \A p \in h.paused : \E j \in Pollers(jobs') : j.key = p.key /\ j.did = p.did

\* C35 as stated: whichever way a handler ends, the pollers it paused and
\* did not cancel are registered again when it ends.
C35_ResumeOnEveryExit ==
    [][(h.pc # "idle" /\ h'.pc = "idle") => Resumed_all]_vars

\* C35: a handler that ends with a message to the owner (completion, no
\* jobs to check, job not found, an exception in its body) registers again
\* the pollers it paused and did not cancel; one that ends because its
\* status message or its last message could not be sent resumes nothing.
\* Either way every job of a paused poller gets a poller again, from the
\* handler or from the reconciliation job, or stops being active.
C35_PausedPollerComesBack ==
    /\ [][(h.pc # "idle" /\ h'.pc = "idle") =>
             IF out' # NoMsg THEN Resumed_all ELSE jobs' = jobs]_vars
    /\ \A k \in Keys :
          (\E p \in h.paused : p.key = k)
             ~> (PollerCount(jobs, k) > 0 \/ db[k] # "active")

\* a handler about to end holds the paused poller of an active job
C35_Witness ==
    /\ byNone = "all"
    /\ h.pc = "ending"
    /\ \E p \in h.paused : db[p.key] = "active" /\ PollerCount(jobs, p.key) = 0

\* job k has no row, no registered poller, and no handler holds a paused
\* poller of it
Quiet(k) ==
    /\ db[k] = "none"
    /\ PollerCount(jobs, k) = 0
    /\ \A p \in h.paused : p.key # k

FoundInteractive(k) ==
    /\ out = Msg("user", k[1], "dates")
    /\ h.pc \in {"chk_check", "ending"}
    /\ \E p \in h.paused : p.key = k

\* C37: no step of handle_check_appointments, whatever the check returned,
\* changes a row, a preferred date or the set of resolved jobs; the step that
\* takes the result of a check leaves the registry and the paused pollers as
\* they are; and after a check that found dates the job gets its poller
\* again (or stops being active by a later cancel).
C37_InteractiveCheckKeepsJob ==
    /\ [][((h.pc \in {"chk_status", "chk_check", "ending"} \/ h'.pc = "chk_status")
            /\ h' # h) =>
              /\ db' = db
              /\ pref' = pref
              /\ foundDone' = foundDone
              /\ (h.pc = "chk_check" => jobs' = jobs /\ h'.paused = h.paused)]_vars
    /\ \A k \in Keys :
          (FoundInteractive(k) /\ db[k] = "active")
             ~> (PollerCount(jobs, k) > 0 \/ db[k] # "active")

\* an interactive check found dates for an active job whose poller the
\* handler holds: the row is there and nothing is marked resolved
C37_Witness ==
    /\ FoundInteractive(KeySeq[1])
    /\ h.pc = "ending"
    /\ byNone = "all"
    /\ db[KeySeq[1]] = "active"
    /\ PollerCount(jobs, KeySeq[1]) = 0
    /\ foundDone = {}

\* the registered jobs that are not pollers of owner o: the pollers of the
\* other owners and the reconciliation job
NotOf(js, o) == {j \in js : j.key[1] # o}

\* C38: pause_user_searches(o) takes from the registry only pollers of o,
\* and resume_user_searches(o, polls) adds only the polls it is given, the
\* ones paused in this state or the ones a handler holds; the pollers of
\* every other owner (12 next to 1) and the reconciliation job stay
\* registered as they are.  The same holds of every step of a handler of o
\* that changes the registry.
C38_OtherOwnersUntouched ==
    /\ [](\A o \in Owners :
            LET m == pause_user_searches(jobs, o)
                rest == schedule_removal(jobs, m)
            IN  /\ \A j \in m : j.key[1] = o /\ j.cb = "check_dates_continuously"
                /\ NotOf(rest, o) = NotOf(jobs, o)
                /\ (ReconcileJob \in jobs) = (ReconcileJob \in rest)
                /\ CanResume(rest, {PausedEntry(j) : j \in m}) =>
                      /\ NotOf(PauseThenResume(jobs, o), o) = NotOf(jobs, o)
                      /\ (ReconcileJob \in jobs) = (ReconcileJob \in PauseThenResume(jobs, o))
                /\ (h.owner = o /\ CanResume(jobs, h.paused)) =>
                      /\ NotOf(resume_user_searches(jobs, h.paused), o) = NotOf(jobs, o)
                      /\ (ReconcileJob \in jobs)
                            = (ReconcileJob \in resume_user_searches(jobs, h.paused)))
    /\ [][(h' # h /\ jobs' # jobs) =>
             LET o == IF h.pc = "idle" THEN h'.owner ELSE h.owner
             IN  /\ NotOf(jobs', o) = NotOf(jobs, o)
                 /\ (ReconcileJob \in jobs) = (ReconcileJob \in jobs')]_vars

\* a handler of owner 1 holds the paused poller of owner 1 while the poller
\* of owner 12 and the reconciliation job are registered
C38_Witness ==
    /\ byNone = "all"
    /\ h.pc # "idle"
    /\ h.owner = 1
    /\ h.paused # {}
    /\ pause_user_searches(jobs, 12) # {}
    /\ pause_user_searches(jobs, 1) = {}
    /\ ReconcileJob \in jobs

\* run i has had its "set preferred date" prompt sent in this step
PromptSentBy(i) ==
    /\ i.pc = "asking"
    /\ CopiesIn(i, inst') < CopiesIn(i, inst)
    /\ out' = Msg("user", i.key[1], "prompt")

\* a tick of a poller whose job data holds the asked-flag starts no run that
\* sends the prompt, and the entry pause_user_searches keeps for a poller
\* holds the job data of the poller, flag included
AskedFlagKept ==
    /\ [][\A i \in BagToSet(inst') :
             (/\ i.pc = "asking"
              /\ BagCardinality(inst') > BagCardinality(inst)
              /\ CopiesIn(i, inst') > CopiesIn(i, inst)) =>
                 \E j \in jobs : j.key = i.key /\ j.id = i.jid /\ j.did = i.did /\ j.did # 0]_vars
    /\ [](\A o \in Owners :
            LET m == pause_user_searches(jobs, o)
            IN  CanResume(schedule_removal(jobs, m), {PausedEntry(j) : j \in m}) =>
                    PollerData(PauseThenResume(jobs, o)) = PollerData(jobs))

\* C39: the prompt of a run is sent only while the job data the run started
\* with is without the asked-flag, so the runs of one poller send it once.
C39_PromptOncePerPoller ==
    [][\A i \in BagToSet(inst) : PromptSentBy(i) => i.did # 0]_vars

====
